---- MODULE Spec2Model ----
(***************************************************************************)
(* Verification model of the SuperBall backend: the match-3 board engine   *)
(* (app/models/game.py: GameBoard), the session state machine             *)
(* (app/services/game_service.py: GameService.make_move / finish_game) and *)
(* the reward settlement it triggers (app/services/reward_service.py).     *)
(*                                                                         *)
(* Positions are <<x, y>> as in the code; a board is indexed board[y][x]   *)
(* with y in 0..H-1 and x in 0..W-1, exactly like the Python list of rows. *)
(***************************************************************************)
EXTENDS Integers, Sequences, FiniteSets, TLC

----------------------------------------------------------------------------
(* Program constants                                                       *)

\* GameBoard: 7 columns
W == 7
\* GameBoard: 8 rows
H == 8
\* _generate_board_with_moves: max_attempts
MaxAttempts == 100
\* make_move: "if game.round > 5"
RoundLimit == 5
\* GameSession.player*_moves_left default and the reset value on a switch
MovesPerTurn == 2
\* settings.TURN_SECONDS default
TurnSeconds == 30
\* _calculate_score: base_score
BaseScore == 10
\* settings.TOTAL_ROUNDS default ("5")
DefaultTotalRounds == 5

\* list(BlockColor): the six ordinary colours, then the bomb marker
BlockColor == <<"Purple", "Green", "Blue", "Yellow", "Red", "Pink", "Bomb">>
\* list(BlockColor)[:6]
Palette == SubSeq(BlockColor, 1, 6)
Empty == "Empty"

IN_PROGRESS == "in_progress"
FINISHED == "finished"

Xs == 0 .. (W - 1)
Ys == 0 .. (H - 1)

Range(s) == {s[i] : i \in 1 .. Len(s)}

\* a value the code holds in a list: every element computed once, when the
\* list is built (f @@ <<>> = f; this only fixes when the elements are evaluated)
Strict(f) == f @@ <<>>

\* the numbers of I in increasing order
Ascending(I) ==
  [k \in 1 .. Cardinality(I) |-> CHOOSE i \in I : Cardinality({j \in I : j < i}) = k - 1]
  \o <<>>

\* [s[i] for i in idx]
At(s, idx) == [k \in 1 .. Len(idx) |-> s[idx[k]]] \o <<>>

\* [s[i] for i in range(len(s)) if i in I], for a set I of indices of s
Pick(s, I) == At(s, Ascending(I))

\* a board as the list of rows the code holds
Rows(b) == Strict([y \in Ys |-> Strict([x \in Xs |-> b[y][x]])])

----------------------------------------------------------------------------
(* The random module: a generator whose state is a position on a fixed     *)
(* cyclic tape of raw draws; random.choice(seq) is seq[randbelow(len)].    *)

\* start positions 0..MaxSeed of the generator are explored on each tape
MaxSeed == 3

\* Raw draws.  The first tape mixes every case of the engine (bombs, matches
\* of 3, 4 and 5+, refills that leave no match); the second is a period-14
\* proper colouring of the hex grid, on which random boards have no match at
\* all, so that the 100 attempts of board generation can be exhausted; the
\* third draws that colouring with one cell changed, which makes the top
\* three cells of column 3 the only group of the board, and then the colour
\* of that group three times.
Tapes ==
  << << 23, 1, 16, 3, 4, 5, 0, 39, 4, 5, 0, 1, 26, 23, 0, 1, 2, 3, 4, 34, 0 >>,
     << 0, 1, 2, 3, 4, 5, 0, 3, 4, 5, 0, 1, 2, 3 >>,
     << 0, 1, 2, 3, 4, 5, 0, 3, 4, 5, 0, 1, 2, 3,
        0, 1, 2, 3, 4, 5, 0, 3, 4, 5, 0, 1, 2, 3,
        0, 1, 2, 3, 4, 5, 0, 3, 4, 5, 0, 1, 2, 3,
        0, 1, 2, 0, 4, 5, 0, 3, 4, 5, 0, 1, 2, 3,
        0, 0, 0 >> >>

TapeLen(r) == Len(Tapes[r.tape])

\* Random._randbelow(n)
RandBelow(r, n) == Tapes[r.tape][(r.pos % TapeLen(r)) + 1] % n
\* the generator after k more draws
Skip(r, k) == [r EXCEPT !.pos = (r.pos + k) % TapeLen(r)]
Advance(r) == Skip(r, 1)
\* random.choice(seq)
Choice(seq, r) == seq[RandBelow(r, Len(seq)) + 1]

----------------------------------------------------------------------------
(* GameBoard                                                               *)

InBounds(p) == 0 <= p[1] /\ p[1] < 7 /\ 0 <= p[2] /\ p[2] < 8

\* faulty variant: the diagonals of the even rows used on every row
DirectionsWithoutParity(y) ==
  << <<0, 1>>, <<0, -1>>, <<1, 0>>, <<-1, 0>>, <<-1, 1>>, <<-1, -1>> >>

\* faulty variant: the diagonals of the even and of the odd rows exchanged
DirectionsParitySwapped(y) ==
  << <<0, 1>>, <<0, -1>>, <<1, 0>>, <<-1, 0>> >> \o
  (IF y % 2 = 0 THEN << <<1, 1>>, <<1, -1>> >>
                ELSE << <<-1, 1>>, <<-1, -1>> >>)

\* get_neighbors: the four axis directions, then the two diagonals of the
\* row's parity
Directions(y) ==
  << <<0, 1>>, <<0, -1>>, <<1, 0>>, <<-1, 0>> >> \o
  (IF y % 2 = 0 THEN << <<-1, 1>>, <<-1, -1>> >>
                ELSE << <<1, 1>>, <<1, -1>> >>)

\* get_neighbors: (x + dx, y + dy) for each direction ...
Offsets(x, y, d) == [i \in 1 .. Len(d) |-> <<x + d[i][1], y + d[i][2]>>]

\* ... those inside the grid
InGrid(cand) == Pick(cand, {i \in 1 .. Len(cand) : InBounds(cand[i])})

GetNeighbors(x, y) == InGrid(Offsets(x, y, Directions(y)))

\* get_neighbors(x, y) for every cell, tabulated once
Neighbors == [y \in Ys |-> [x \in Xs |-> GetNeighbors(x, y)]]

\* set(get_neighbors(x, y)) for every cell
NeighborSet == [y \in Ys |-> [x \in Xs |-> Range(Neighbors[y][x])]]

\* the cells in the order of "for y in range(8): for x in range(7)"
ScanOrder == [i \in 1 .. W * H |-> <<(i - 1) % W, (i - 1) \div W>>]

\* the place of cell p in that order
ScanIndex(p) == p[2] * W + p[1] + 1

\* the cells of a set, in scan order
InScanOrder(cells) == At(ScanOrder, Ascending({ScanIndex(p) : p \in cells}))

\* board[y][x] of cell p
ColorAt(b, p) == b[p[2]][p[1]]

\* the unvisited neighbours, of the colour, of the cells of the frontier
Spread(b, color, visited, group, frontier) ==
  {n \in UNION {NeighborSet[p[2]][p[1]] : p \in frontier} :
     n \notin visited /\ n \notin group /\ b[n[2]][n[1]] = color}

\* _flood_fill visits exactly the cells that (x, y) reaches through
\* neighbours of its colour that are not in visited; Reach collects them
\* ring by ring
RECURSIVE Reach(_, _, _, _, _)
Grow(b, color, visited, group, next) ==
  IF next = {} THEN group ELSE Reach(b, color, visited, group \cup next, next)

Reach(b, color, visited, group, frontier) ==
  Grow(b, color, visited, group, Spread(b, color, visited, group, frontier))

\* _flood_fill, once its cells are known: the group and the visited set
Filled(visited, cells) == [group |-> InScanOrder(cells), visited |-> visited \cup cells]

\* _flood_fill: the group and the visited set it leaves.  The code lists the
\* group in the order of its recursion; it is listed in scan order here
\* (the callers read its length and its members only).
FloodFill(b, x, y, color, visited) ==
  IF <<x, y>> \in visited \/ b[y][x] # color
  THEN [group |-> <<>>, visited |-> visited]
  ELSE Filled(visited, Reach(b, color, visited, {<<x, y>>}, {<<x, y>>}))

\* what a flood fill from the i-th cell collects when nothing is visited
Connected(b) ==
  Strict([i \in 1 .. W * H |->
            IF ColorAt(b, ScanOrder[i]) = Empty THEN {}
            ELSE Reach(b, ColorAt(b, ScanOrder[i]), {}, {ScanOrder[i]}, {ScanOrder[i]})])

\* find_matches: the cells its loop finds not empty and not yet visited.  A
\* fill marks the cells connected to its start and no other, so the i-th
\* cell is unvisited exactly when no cell before it is connected to it.
Unvisited(connected) ==
  {i \in 1 .. W * H : connected[i] # {} /\ \A p \in connected[i] : ScanIndex(p) >= i}

\* find_matches: visited when the loop reaches the i-th cell, which is what
\* the fills from the unvisited cells before it have marked
VisitedAt(connected, fills, i) == UNION {connected[j] : j \in {k \in fills : k < i}}

\* find_matches: the group of each flood fill it starts
Groups(b, connected, fills) ==
  Strict([i \in fills |->
            FloodFill(b, ScanOrder[i][1], ScanOrder[i][2], ColorAt(b, ScanOrder[i]),
                      VisitedAt(connected, fills, i)).group])

\* find_matches keeping the groups of two cells as well
MatchesFromPairs(groups) == At(groups, Ascending({i \in DOMAIN groups : Len(groups[i]) >= 2}))

\* find_matches: "if len(group) >= 3: matches.append(group)", in loop order
Matches(groups) == At(groups, Ascending({i \in DOMAIN groups : Len(groups[i]) >= 3}))

\* find_matches: its flood fills
Fills(b, connected) == Groups(b, connected, Unvisited(connected))

\* find_matches
FindMatches(b) == Matches(Fills(b, Connected(b)))

HasPossibleMoves(b) == Len(FindMatches(b)) > 0

ExplodeBlocks(b, positions) ==
  Rows([y \in Ys |-> [x \in Xs |-> IF <<x, y>> \in Range(positions) THEN Empty ELSE b[y][x]]])

\* faulty variant: the blocks of a column collected from the top down
ColumnBlocksTopDown(b, x) ==
  LET idx == Ascending({i \in 1 .. H : b[i - 1][x] # Empty})
  IN [k \in 1 .. Len(idx) |->
        <<idx[Len(idx) + 1 - k] - 1, b[idx[Len(idx) + 1 - k] - 1][x]>>] \o <<>>

\* apply_gravity, one column: the non-empty (y, colour) pairs bottom to top
ColumnBlocks(b, x) ==
  At([i \in 1 .. H |-> <<i - 1, b[i - 1][x]>>], Ascending({i \in 1 .. H : b[i - 1][x] # Empty}))

\* apply_gravity, one column: the blocks that change row
MovesOf(x, cb) ==
  At([i \in 1 .. Len(cb) |-> [from |-> <<x, cb[i][1]>>, to |-> <<x, i - 1>>]],
     Ascending({i \in 1 .. Len(cb) : cb[i][1] # i - 1}))

\* apply_gravity, once the blocks of each column are collected: every column
\* rebuilt from the bottom, and the moves of the columns one after the other
Fallen(cols) ==
  [board |-> Rows([y \in Ys |-> [x \in Xs |->
                IF y + 1 <= Len(cols[x]) THEN cols[x][y + 1][2] ELSE Empty]]),
   moves |-> MovesOf(0, cols[0]) \o MovesOf(1, cols[1]) \o MovesOf(2, cols[2]) \o
             MovesOf(3, cols[3]) \o MovesOf(4, cols[4]) \o MovesOf(5, cols[5]) \o
             MovesOf(6, cols[6])]

\* faulty variant: no block falls
ApplyGravityNothing(b) == [board |-> b, moves |-> <<>>]

\* apply_gravity: for x in range(7)
ApplyGravity(b) == Fallen(Strict([x \in Xs |-> ColumnBlocks(b, x)]))

\* fill_empty_spaces visits the columns left to right and, in each, the
\* cells from the top row down
FillOrder == [i \in 1 .. W * H |-> <<(i - 1) \div H, H - 1 - ((i - 1) % H)>>]

\* the place of cell p in that order
FillIndex(p) == p[1] * H + (H - 1 - p[2]) + 1

\* cell p belongs to the run of empty cells at the top of its column
TopEmpty(b, p) == \A y \in p[2] .. (H - 1) : b[y][p[1]] = Empty

\* fill_empty_spaces, once the cells to fill are known: the i-th of them
\* gets the i-th random.choice(list(BlockColor))
Refill(b, r, idx) ==
  [board |-> Rows([y \in Ys |-> [x \in Xs |->
                IF TopEmpty(b, <<x, y>>)
                THEN Choice(BlockColor,
                            Skip(r, Cardinality({i \in Range(idx) : i < FillIndex(<<x, y>>)})))
                ELSE b[y][x]]]),
   new_blocks |-> [k \in 1 .. Len(idx) |->
                     [pos |-> FillOrder[idx[k]],
                      value |-> Choice(BlockColor, Skip(r, k - 1))]] \o <<>>,
   rng |-> Skip(r, Len(idx))]

\* faulty variant: every empty cell is filled, also below a block
FillEveryEmptyCell(b, r) ==
  LET idx == Ascending({i \in 1 .. W * H : ColorAt(b, FillOrder[i]) = Empty})
  IN [board |-> Rows([y \in Ys |-> [x \in Xs |->
                  IF b[y][x] = Empty
                  THEN Choice(BlockColor,
                              Skip(r, Cardinality({i \in Range(idx) : i < FillIndex(<<x, y>>)})))
                  ELSE b[y][x]]]),
      new_blocks |-> [k \in 1 .. Len(idx) |->
                        [pos |-> FillOrder[idx[k]],
                         value |-> Choice(BlockColor, Skip(r, k - 1))]] \o <<>>,
      rng |-> Skip(r, Len(idx))]

\* fill_empty_spaces: one random.choice(list(BlockColor)) per cell of the top
\* runs, drawn in the order the cells are visited
FillEmptySpaces(b, r) ==
  Refill(b, r, Ascending({i \in 1 .. W * H : TopEmpty(b, FillOrder[i])}))

\* [[random.choice(palette) for _ in range(7)] for _ in range(8)]:
\* row y = 0 first, x = 0..6 within the row
RandomBoard(r) ==
  Rows([y \in Ys |-> [x \in Xs |-> Choice(Palette, Skip(r, W * y + x))]])

\* _generate_board_with_moves: the board of attempt k, which draws its 56
\* cells after those of the attempts before it
Attempt(r, k) == RandomBoard(Skip(r, W * H * k))

\* "if test_board.has_possible_moves()"
Good(r, k) == HasPossibleMoves(Attempt(r, k))

\* faulty variant: the fallback board is left as drawn
ForceMatchNothing(b, color, r) == [board |-> b, rng |-> r, forced |-> TRUE]

\* the fallback: one more random board with a forced 3-match
ForceMatch(b, color, r) ==
  [board |-> [b EXCEPT ![2][2] = color, ![2][3] = color, ![2][4] = color],
   rng |-> r, forced |-> TRUE]

\* the first attempt whose board has a possible move
FirstGood(r) ==
  CHOOSE i \in 0 .. (MaxAttempts - 1) : Good(r, i) /\ \A j \in 0 .. (i - 1) : ~Good(r, j)

\* "self.board = test_board; return"
Generated(r, k) == [board |-> Attempt(r, k), rng |-> Skip(r, W * H * (k + 1)), forced |-> FALSE]

\* _generate_board_with_moves: the first of up to 100 random boards that has
\* a possible move; when none has, the fallback
GenerateBoardWithMoves(r) ==
  IF \E k \in 0 .. (MaxAttempts - 1) : Good(r, k)
  THEN Generated(r, FirstGood(r))
  ELSE ForceMatch(Attempt(r, MaxAttempts),
                  Choice(Palette, Skip(r, W * H * (MaxAttempts + 1))),
                  Skip(r, W * H * (MaxAttempts + 1) + 1))

\* regenerate_board
RegenerateBoard(r) == GenerateBoardWithMoves(r)

\* [board[7-i] for i in range(8)]
Flip(b) == Rows([i \in Ys |-> b[7 - i]])

----------------------------------------------------------------------------
(* Documents, requests, configuration                                      *)

None == "None"
GameId == "g1"
UnknownGameId == "g0"
P1 == "p1"
P2 == "p2"
Stranger == "p3"
P1Name == "Alice"
P2Name == "Bob"

\* os.getenv("TOTAL_ROUNDS", "5"): unset, or set by the deployment
EnvTotalRounds == {None, "3"}

\* Settings: TOTAL_ROUNDS and TURN_SECONDS as read from the environment
Settings(env) ==
  [TOTAL_ROUNDS |-> IF env = None THEN DefaultTotalRounds ELSE 3,
   TURN_SECONDS |-> TurnSeconds]

\* the users collection: UserInDB documents of the two participants
Users ==
  [u \in {P1, P2} |-> [uniqId |-> u, name |-> IF u = P1 THEN P1Name ELSE P2Name,
                       coins |-> 0, trophies |-> 0]]

\* cells the players click: three inside the grid, two outside it
Clicks == {<<3, 2>>, <<3, 5>>, <<1, 1>>, <<7, 0>>, <<0, -1>>}

\* MoveRequest: (game_id, uniqId, x, y)
Requests ==
  {[game_id |-> GameId, uniqId |-> u, x |-> c[1], y |-> c[2]] : u \in {P1, P2}, c \in Clicks}
  \cup {[game_id |-> GameId, uniqId |-> Stranger, x |-> 3, y |-> 2],
        [game_id |-> UnknownGameId, uniqId |-> P1, x |-> 3, y |-> 2]}

Fourth == "p4"

\* the players who use the matchmaking service, and the names they send
Players == {P1, P2, Stranger, Fourth}

NameOf(uniq_id) ==
  IF uniq_id = P1 THEN P1Name
  ELSE IF uniq_id = P2 THEN P2Name
  ELSE IF uniq_id = Stranger THEN "Carol" ELSE "Dave"

\* the three of them who come and go at any time
Regulars == {P1, P2, Stranger}

\* WebSocket objects a player's connections are made of
Sockets == {"ws1", "ws2"}

\* MatchmakingManager.__init__; _connections[u] = None: u is not a key
NewManager == [queue |-> <<>>, connections |-> [u \in Players |-> None]]

\* the WebSocket objects of the clients that watch session GameId
GameSockets == {"a", "b", "c"}

\* send_personal_message calls that may be under way together
Fanouts == {1, 2}

\* ConnectionManager.__init__: active_connections = {}; present is "GameId
\* is a key", list its value
NewConnectionManager == [present |-> FALSE, list |-> <<>>]

VARIABLES
  game,      \* the stored GameSession document of GameId (created_at and
             \* updated_at, which no decision reads, are left out)
  rng,       \* state of the random module
  clock,     \* datetime.utcnow(), in ticks: one per resolved action
  settings,  \* app.config.settings
  req,       \* game_id and uniqId of the last call's request
  resp,      \* what the last call returned: a MoveResponse or an HTTP error
  writes,    \* the field sets update_game wrote during the last call
  sent,      \* message types handed to manager.send_personal_message by the last call
  settled,   \* what process_game_result read and produced, one entry per run
  calls,     \* make_move calls in flight (concurrent specification only)
  start,     \* the session and generator as created (for comparing schedules)
  gb,        \* a GameBoard object: its board, and the calls made on it so far
  ret,       \* the last direct call of a method: its name, arguments and
             \* returned value
  mm,        \* the MatchmakingManager singleton: its _queue and _connections
  monotonic, \* time.monotonic(), in seconds
  tasks,     \* coroutines of the matchmaking service waiting on the event loop
  inbox,     \* the match_found messages sent so far, with the socket of each
  sessions,  \* the game sessions the matchmaking service created, oldest first
  cm,        \* the ConnectionManager singleton of routes/game.py: its
             \* active_connections entry of GameId
  ws,        \* the state of each WebSocket of /game/ws/{game_id}
  fan,       \* the send_personal_message calls under way
  handlers   \* the matchmaking_ws handler of each WebSocket of /matchmaking/ws

vars ==
  <<game, rng, clock, settings, req, resp, writes, sent, settled, calls, start, gb, ret,
    mm, monotonic, tasks, inbox, sessions, cm, ws, fan, handlers>>

----------------------------------------------------------------------------
(* GameRepository                                                          *)

\* find_by_id: the document, or None for any other id
FindById(stored, game_id) ==
  IF game_id = GameId THEN [found |-> TRUE, doc |-> stored] ELSE [found |-> FALSE]

\* update_game: {"$set": update_data} on the stored document
UpdateGame(stored, update_data) ==
  [k \in DOMAIN stored |-> IF k \in DOMAIN update_data THEN update_data[k] ELSE stored[k]]

----------------------------------------------------------------------------
(* GameService                                                             *)

\* GameSession(...) as create_game_session builds it from the generated board
NewSession(gen, deadline, id, player1_id, player1_name, player2_id, player2_name) ==
  [doc |-> [id |-> id,
            player1_id |-> player1_id, player2_id |-> player2_id,
            player1_name |-> player1_name, player2_name |-> player2_name,
            current_player_id |-> player1_id,
            board |-> Flip(gen.board),
            player1_score |-> 0, player2_score |-> 0,
            player1_moves_left |-> 2, player2_moves_left |-> 2,
            player1_bombs |-> 0, player2_bombs |-> 0,
            round |-> 1,
            status |-> IN_PROGRESS,
            current_turn_deadline |-> deadline],
   rng |-> gen.rng]

\* create_game_session: a generated board, stored flipped; player 1 starts
CreateGameSession(r, t, turn_seconds, id, player1_id, player1_name, player2_id, player2_name) ==
  NewSession(GenerateBoardWithMoves(r), t + turn_seconds, id,
             player1_id, player1_name, player2_id, player2_name)

\* faulty variant: the clicked cell and its neighbours of the colour only
GetConnectedBlocksNearby(b, x, y, color) ==
  << <<x, y>> >> \o
  Pick(Neighbors[y][x], {i \in 1 .. Len(Neighbors[y][x]) : ColorAt(b, Neighbors[y][x][i]) = color})

\* _get_connected_blocks
GetConnectedBlocks(b, x, y, color) == FloodFill(b, x, y, color, {}).group

\* faulty variant: the rule for 6 cells and more applied to every count
CalculateScoreWithoutCases(blocks_count) == BaseScore * (blocks_count * 2)

\* _calculate_score
CalculateScore(blocks_count) ==
  IF blocks_count = 3 THEN BaseScore * 3
  ELSE IF blocks_count = 4 THEN BaseScore * 6
  ELSE IF blocks_count = 5 THEN BaseScore * 10
  ELSE BaseScore * (blocks_count * 2)

\* the winner by score, as make_move reports it
Winner(g) ==
  IF g.player1_score > g.player2_score THEN g.player1_name
  ELSE IF g.player2_score > g.player1_score THEN g.player2_name
  ELSE "Tie"

\* the fields make_move passes to update_game when nothing exploded
NoMatchFields(g) ==
  [board |-> g.board,
   player1_score |-> g.player1_score, player2_score |-> g.player2_score,
   player1_moves_left |-> g.player1_moves_left, player2_moves_left |-> g.player2_moves_left,
   player1_bombs |-> g.player1_bombs, player2_bombs |-> g.player2_bombs,
   current_player_id |-> g.current_player_id,
   round |-> g.round]

\* the fields make_move passes to update_game after a resolution
ResolvedFields(g) ==
  [board |-> g.board,
   player1_score |-> g.player1_score, player2_score |-> g.player2_score,
   player1_moves_left |-> g.player1_moves_left, player2_moves_left |-> g.player2_moves_left,
   player1_bombs |-> g.player1_bombs, player2_bombs |-> g.player2_bombs,
   current_player_id |-> g.current_player_id,
   round |-> g.round,
   current_turn_deadline |-> g.current_turn_deadline]

\* make_move: "game.player1_moves_left if game.player1_id == uniqId else
\* game.player2_moves_left"
MovesLeftOf(g, uniqId) ==
  IF g.player1_id = uniqId THEN g.player1_moves_left ELSE g.player2_moves_left

\* raise ValueError(detail): nothing computed, nothing to write
Rejected(detail, r) ==
  [error |-> detail, resolved |-> FALSE, finish |-> FALSE, rng |-> r]

\* make_move, no valid match: "game.board = [game_board_after.board[7-i] ...]"
Replaced(g, gen) ==
  [game |-> [g EXCEPT !.board = Flip(gen.board)], rng |-> gen.rng, board_regenerated |-> TRUE]

\* make_move, no valid match: "Ensure there is at least one possible move;
\* regenerate silently if needed"
KeepPlayable(g, r) ==
  IF ~HasPossibleMoves(Flip(g.board))
  THEN Replaced(g, RegenerateBoard(r))
  ELSE [game |-> g, rng |-> r, board_regenerated |-> FALSE]

\* make_move, no valid match: the write and the MoveResponse
NoMatchResult(kept, request, current_score, moves_left_before) ==
  [error |-> "", resolved |-> FALSE, finish |-> FALSE,
   rng |-> kept.rng,
   game |-> kept.game,
   update |-> NoMatchFields(kept.game),
   resp |-> [kind |-> "ok",
             score_gained |-> 0,
             total_score |-> current_score,
             round |-> kept.game.round,
             moves_left |-> moves_left_before,
             board |-> kept.game.board,
             exploded |-> <<>>, fallen |-> <<>>, new_blocks |-> <<>>,
             board_regenerated |-> kept.board_regenerated,
             game_over |-> kept.game.status = FINISHED,
             winner |-> IF kept.game.status = FINISHED THEN Winner(kept.game) ELSE None,
             clicked_x |-> request.x, clicked_y |-> request.y]]

\* faulty variant: a click on fewer than 3 cells costs a move
NoMatchConsumesMove(g, r, request, current_score, moves_left_before) ==
  NoMatchResult(KeepPlayable([g EXCEPT
                                !.player1_moves_left =
                                   IF g.player1_id = request.uniqId THEN @ - 1 ELSE @,
                                !.player2_moves_left =
                                   IF g.player1_id = request.uniqId THEN @ ELSE @ - 1], r),
                request, current_score, moves_left_before - 1)

\* make_move, the branch len(exploded_positions) < 3
NoMatch(g, r, request, current_score, moves_left_before) ==
  NoMatchResult(KeepPlayable(g, r), request, current_score, moves_left_before)

\* faulty variant: the move is always taken from player 1
ConsumeMoveOfPlayer1(g, uniqId) == [g EXCEPT !.player1_moves_left = @ - 1]

\* make_move: "Consume move now that a valid explosion occurred"
ConsumeMove(g, uniqId) ==
  IF g.player1_id = uniqId THEN [g EXCEPT !.player1_moves_left = @ - 1]
                           ELSE [g EXCEPT !.player2_moves_left = @ - 1]

\* faulty variant: a charge is granted whatever the size of the group
ApplyScoreAlwaysBonus(g, uniqId, total_score_gained, bomb_bonus) ==
  IF g.player1_id = uniqId
  THEN [g EXCEPT !.player1_score = @ + total_score_gained, !.player1_bombs = @ + 1]
  ELSE [g EXCEPT !.player2_score = @ + total_score_gained, !.player2_bombs = @ + 1]

\* make_move: "Update game state (scores/bombs)"
ApplyScore(g, uniqId, total_score_gained, bomb_bonus) ==
  IF g.player1_id = uniqId
  THEN [g EXCEPT !.player1_score = @ + total_score_gained,
                 !.player1_bombs = IF bomb_bonus THEN @ + 1 ELSE @]
  ELSE [g EXCEPT !.player2_score = @ + total_score_gained,
                 !.player2_bombs = IF bomb_bonus THEN @ + 1 ELSE @]

\* faulty variant: the turn passes without resetting the allowance
SwitchTurnNoReset(g, moves_left_after) ==
  IF moves_left_after = 0
  THEN IF g.current_player_id = g.player1_id
       THEN [g EXCEPT !.current_player_id = g.player2_id]
       ELSE LET n == [g EXCEPT !.current_player_id = g.player1_id, !.round = @ + 1]
            IN IF n.round > RoundLimit THEN [n EXCEPT !.status = FINISHED] ELSE n
  ELSE g

\* faulty variant: the round is counted at every switch of the turn
SwitchTurnRoundPerSwitch(g, moves_left_after) ==
  IF moves_left_after = 0
  THEN LET other == IF g.current_player_id = g.player1_id THEN g.player2_id
                                                           ELSE g.player1_id
           n == [g EXCEPT !.current_player_id = other,
                          !.player1_moves_left = IF other = g.player1_id THEN MovesPerTurn ELSE @,
                          !.player2_moves_left = IF other = g.player2_id THEN MovesPerTurn ELSE @,
                          !.round = @ + 1]
       IN IF n.round > RoundLimit THEN [n EXCEPT !.status = FINISHED] ELSE n
  ELSE g

\* make_move: "Check if turn should switch (2 moves per player)", with the
\* round increment and the end of the game after round 5
SwitchTurn(g, moves_left_after) ==
  IF moves_left_after = 0
  THEN IF g.current_player_id = g.player1_id
       THEN [g EXCEPT !.current_player_id = g.player2_id,
                      !.player2_moves_left = MovesPerTurn]
       ELSE LET n == [g EXCEPT !.current_player_id = g.player1_id,
                               !.player1_moves_left = MovesPerTurn,
                               !.round = @ + 1]
            IN IF n.round > RoundLimit THEN [n EXCEPT !.status = FINISHED] ELSE n
  ELSE g

\* make_move: "Remove positions that are already empty"
NotEmpty(b, positions) ==
  Pick(positions, {i \in 1 .. Len(positions) : ColorAt(b, positions[i]) # Empty})

\* faulty variant: a bomb explodes its neighbours but not its own cell
ExplodedPositionsWithoutCentre(b, x, y) ==
  IF b[y][x] = "Bomb"
  THEN NotEmpty(b, Neighbors[y][x])
  ELSE GetConnectedBlocks(b, x, y, b[y][x])

\* make_move: the cells a click on (x, y) explodes
ExplodedPositions(b, x, y) ==
  IF b[y][x] = "Bomb"
  THEN NotEmpty(b, << <<x, y>> >> \o Neighbors[y][x])
  ELSE GetConnectedBlocks(b, x, y, b[y][x])

\* faulty variant: a board without moves is kept
EnsureMovesNever(b, r) == [board |-> b, rng |-> r, board_regenerated |-> FALSE]

\* make_move: "game_board.regenerate_board(); board_regenerated = True"
Regenerated(gen) == [board |-> gen.board, rng |-> gen.rng, board_regenerated |-> TRUE]

\* make_move: "Ensure next board has possible moves; regenerate if needed"
EnsureMoves(b, r) ==
  IF ~HasPossibleMoves(b)
  THEN Regenerated(RegenerateBoard(r))
  ELSE [board |-> b, rng |-> r, board_regenerated |-> FALSE]

\* make_move: score, move, bombs, turn and deadline of a resolution by
\* uniqId that exploded n cells from a cell of colour clicked_color
Account(g, uniqId, clicked_color, n, deadline) ==
  LET score_gained == IF clicked_color = "Bomb" THEN CalculateScore(n) * 2
                                               ELSE CalculateScore(n)
      g1 == ConsumeMove(g, uniqId)
      moves_left_after == MovesLeftOf(g1, uniqId)
      g2 == ApplyScore(g1, uniqId, score_gained, clicked_color # "Bomb" /\ n >= 5)
      g3 == SwitchTurn(g2, moves_left_after)
  IN [game |-> [g3 EXCEPT !.current_turn_deadline = deadline],
      total_score_gained |-> score_gained,
      current_score |-> IF g.player1_id = uniqId THEN g2.player1_score
                                                 ELSE g2.player2_score,
      moves_left_after |-> moves_left_after,
      finish |-> g3.status = FINISHED]

\* make_move: explode, gravity, refill and the check for possible moves,
\* each on the board the step before it left
Ensured(grav, fill, ens) ==
  [fallen |-> grav.moves, new_blocks |-> fill.new_blocks,
   board |-> ens.board, rng |-> ens.rng, board_regenerated |-> ens.board_regenerated]

Refilled(grav, fill) == Ensured(grav, fill, EnsureMoves(fill.board, fill.rng))

Settled(grav, r) == Refilled(grav, FillEmptySpaces(grav.board, r))

\* faulty variant: after the refill the first group find_matches reports
\* is exploded as well, with a second gravity and refill
SettleCascading(internal_board, exploded_positions, r) ==
  LET first == Settled(ApplyGravity(ExplodeBlocks(internal_board, exploded_positions)), r)
      matches == FindMatches(first.board)
  IN IF Len(matches) = 0 THEN first
     ELSE [Settled(ApplyGravity(ExplodeBlocks(first.board, matches[1])), first.rng)
             EXCEPT !.fallen = first.fallen, !.new_blocks = first.new_blocks]

Settle(internal_board, exploded_positions, r) ==
  Settled(ApplyGravity(ExplodeBlocks(internal_board, exploded_positions)), r)

\* make_move: the write and the MoveResponse of a resolution
Resolved(acc, g5, board, request, exploded_positions) ==
  [error |-> "", resolved |-> TRUE,
   finish |-> acc.finish,
   rng |-> board.rng,
   game |-> g5,
   update |-> ResolvedFields(g5),
   resp |-> [kind |-> "ok",
             score_gained |-> acc.total_score_gained,
             total_score |-> acc.current_score,
             round |-> g5.round,
             moves_left |-> acc.moves_left_after,
             board |-> g5.board,
             exploded |-> exploded_positions,
             fallen |-> board.fallen,
             new_blocks |-> board.new_blocks,
             board_regenerated |-> board.board_regenerated,
             game_over |-> g5.status = FINISHED,
             winner |-> IF g5.status = FINISHED THEN Winner(g5) ELSE None,
             clicked_x |-> request.x, clicked_y |-> request.y]]

\* make_move: "game.board = [game_board.board[7-i] for i in range(8)]"
Stored(acc, board, request, exploded_positions) ==
  Resolved(acc, [acc.game EXCEPT !.board = Flip(board.board)], board, request,
           exploded_positions)

\* make_move, from "Calculate score" to the MoveResponse
Resolve(g, r, t, turn_seconds, request, internal_board, exploded_positions) ==
  Stored(Account(g, request.uniqId, internal_board[request.y][request.x],
                 Len(exploded_positions), t + turn_seconds),
         Settle(internal_board, exploded_positions, r),
         request, exploded_positions)

\* faulty variant: the moves-left check made before the turn check
ValidateMovesFirst(found, request) ==
  IF ~found.found THEN "Game not found"
  ELSE IF found.doc.status = FINISHED THEN "Game is finished"
  ELSE IF MovesLeftOf(found.doc, request.uniqId) <= 0 THEN "No moves left"
  ELSE IF found.doc.current_player_id # request.uniqId THEN "Not your turn"
  ELSE IF ~(0 <= request.x /\ request.x < 7 /\ 0 <= request.y /\ request.y < 8)
       THEN "Invalid position"
  ELSE IF found.doc.board[request.y][request.x] = Empty THEN "No block at this position"
  ELSE ""

\* make_move: the checks that raise ValueError, in the order of the code;
\* the detail of the first that fails, "" when none does
Validate(found, request) ==
  IF ~found.found THEN "Game not found"
  ELSE IF found.doc.status = FINISHED THEN "Game is finished"
  ELSE IF found.doc.current_player_id # request.uniqId THEN "Not your turn"
  ELSE IF MovesLeftOf(found.doc, request.uniqId) <= 0 THEN "No moves left"
  ELSE IF ~(0 <= request.x /\ request.x < 7 /\ 0 <= request.y /\ request.y < 8)
       THEN "Invalid position"
  ELSE IF found.doc.board[request.y][request.x] = Empty THEN "No block at this position"
  ELSE ""

\* make_move: "if len(exploded_positions) < 3" and its two branches
Branch(g, r, t, turn_seconds, request, internal_board, exploded_positions) ==
  IF Len(exploded_positions) < 3
  THEN NoMatch(g, r, request,
               IF g.player1_id = request.uniqId THEN g.player1_score ELSE g.player2_score,
               MovesLeftOf(g, request.uniqId))
  ELSE Resolve(g, r, t, turn_seconds, request, internal_board, exploded_positions)

\* make_move: the click on the internal board
Click(g, r, t, turn_seconds, request, internal_board) ==
  Branch(g, r, t, turn_seconds, request, internal_board,
         ExplodedPositions(internal_board, request.x, request.y))

\* make_move up to its writes: the checks, then one of the two branches.
\* found is what find_by_id returned, t is utcnow().
ServiceMakeMove(found, r, t, turn_seconds, request) ==
  IF Validate(found, request) # ""
  THEN Rejected(Validate(found, request), r)
  ELSE Click(found.doc, r, t, turn_seconds, request, Flip(found.doc.board))

----------------------------------------------------------------------------
(* Reward settlement                                                       *)

\* calculate_rewards: "win", "lose" or "tie"
Outcome(player_score, opponent_score) ==
  IF player_score > opponent_score THEN "win"
  ELSE IF player_score < opponent_score THEN "lose" ELSE "tie"

\* calculate_rewards, once the outcome is known
Rewards(outcome, player_score, opponent_score, current_trophies, current_money, current_stars) ==
  [ok |-> TRUE,
   player_score |-> player_score, opponent_score |-> opponent_score,
   outcome |-> outcome, score_difference |-> player_score - opponent_score,
   trophies_gained |-> IF outcome = "win" THEN 50 ELSE IF outcome = "lose" THEN -50 ELSE 0,
   money_gained |-> player_score \div 10,
   stars_earned |-> IF outcome = "win"
                    THEN (IF player_score - opponent_score >= 10 THEN 3 ELSE 2) ELSE 1]

\* calculate_rewards: the new totals
Totals(res, current_trophies, current_money, current_stars) ==
  [k \in DOMAIN res \cup {"new_trophy_count", "new_money_count", "new_star_count"} |->
     IF k = "new_trophy_count"
     THEN (IF current_trophies + res.trophies_gained < 0 THEN 0
           ELSE current_trophies + res.trophies_gained)
     ELSE IF k = "new_money_count" THEN current_money + res.money_gained
     ELSE IF k = "new_star_count" THEN current_stars + res.stars_earned
     ELSE res[k]]

\* GameResult.calculate_rewards: five required parameters
CalculateRewards(player_score, opponent_score, current_trophies, current_money, current_stars) ==
  Totals(Rewards(Outcome(player_score, opponent_score), player_score, opponent_score,
                 current_trophies, current_money, current_stars),
         current_trophies, current_money, current_stars)

\* a Python call of calculate_rewards with the keyword arguments given:
\* a missing required argument raises TypeError
CallCalculateRewards(kwargs) ==
  IF DOMAIN kwargs = {"player_score", "opponent_score", "current_trophies",
                      "current_money", "current_stars"}
  THEN CalculateRewards(kwargs.player_score, kwargs.opponent_score,
                        kwargs.current_trophies, kwargs.current_money,
                        kwargs.current_stars)
  ELSE [ok |-> FALSE, raised |-> "TypeError"]

\* process_game_result: (None, None)
NoResults == [player1_result |-> [ok |-> FALSE], player2_result |-> [ok |-> FALSE]]

\* process_game_result: both results, or (None, None) when one raised
Results(player1_result, player2_result) ==
  IF player1_result.ok /\ player2_result.ok
  THEN [player1_result |-> player1_result, player2_result |-> player2_result]
  ELSE NoResults

\* process_game_result on the game it read: the scores it reads and the
\* two calls of calculate_rewards
Settlement(g, player1, player2) ==
  [read |-> << [player1_score |-> g.player1_score, player2_score |-> g.player2_score] >>,
   results |-> Results(CallCalculateRewards([player_score |-> g.player1_score,
                                             opponent_score |-> g.player2_score,
                                             current_trophies |-> player1.trophies,
                                             current_money |-> player1.coins]),
                       CallCalculateRewards([player_score |-> g.player2_score,
                                             opponent_score |-> g.player1_score,
                                             current_trophies |-> player2.trophies,
                                             current_money |-> player2.coins]))]

\* RewardService.process_game_result: reads the stored game, needs it
\* finished, computes both results; any exception yields (None, None)
ProcessGameResult(stored, game_id, player1_id, player2_id) ==
  IF ~FindById(stored, game_id).found \/ FindById(stored, game_id).doc.status # FINISHED
  THEN [read |-> <<>>, results |-> NoResults]
  ELSE Settlement(FindById(stored, game_id).doc, Users[player1_id], Users[player2_id])

\* finish_game after process_game_result: game_over is broadcast when both
\* results are there
Finished(marked, pr, both) ==
  [game |-> marked,
   writes |-> << {"status"} >>,
   settled |-> [i \in 1 .. Len(pr.read) |->
                  [player1_score |-> pr.read[i].player1_score,
                   player2_score |-> pr.read[i].player2_score,
                   rewarded |-> both]] \o <<>>,
   sent |-> IF both THEN << "game_over" >> ELSE <<>>,
   ok |-> both]

\* finish_game once the status is written
Marked(marked, pr) ==
  Finished(marked, pr, pr.results.player1_result.ok /\ pr.results.player2_result.ok)

\* GameService.finish_game: mark the stored game finished, settle, and on
\* success broadcast game_over
FinishGame(stored, game_id) ==
  IF ~FindById(stored, game_id).found
  THEN [game |-> stored, writes |-> <<>>, settled |-> <<>>, sent |-> <<>>, ok |-> FALSE]
  ELSE Marked(UpdateGame(stored, [status |-> FINISHED]),
              ProcessGameResult(UpdateGame(stored, [status |-> FINISHED]), game_id,
                                stored.player1_id, stored.player2_id))

----------------------------------------------------------------------------
(* The move route and the sequential specification                         *)

\* faulty variant: a click on fewer than 3 cells answered as an error
HttpResponseNoMatchAsError(out) ==
  IF out.error = "" /\ Len(out.resp.exploded) >= 3 THEN out.resp
  ELSE [kind |-> "error", status_code |-> 400,
        detail |-> IF out.error = "" THEN "No match" ELSE out.error]

\* routes/game.py make_move: MoveResponse, or HTTP 400 for a ValueError
HttpResponse(out) ==
  IF out.error = "" THEN out.resp
  ELSE [kind |-> "error", status_code |-> 400, detail |-> out.error]

\* routes/game.py make_move: the broadcasts after a returned response
RouteMessages(out) ==
  IF out.error = "" THEN << "opponent_move", "turn_update" >> ELSE <<>>

\* make_move: the final update_game, after finish_game when the game ended
Written(fin, out) ==
  [game |-> UpdateGame(fin.game, out.update),
   writes |-> fin.writes \o << DOMAIN out.update >>,
   settled |-> fin.settled,
   sent |-> fin.sent]

\* what one make_move call does to the store once computed: finish_game
\* first (when the game ended), then the final update_game
StoreEffects(stored, out) ==
  IF out.error # ""
  THEN [game |-> stored, writes |-> <<>>, settled |-> <<>>, sent |-> <<>>]
  ELSE Written(IF out.finish THEN FinishGame(stored, stored.id)
               ELSE [game |-> stored, writes |-> <<>>, settled |-> <<>>, sent |-> <<>>,
                     ok |-> FALSE],
               out)

Idle == [phase |-> "idle"]

Init ==
  \E tp \in 1 .. Len(Tapes), seed \in 0 .. MaxSeed, env \in EnvTotalRounds :
  \E st \in {Settings(env)} :
  \E created \in {CreateGameSession([tape |-> tp, pos |-> seed], 0, st.TURN_SECONDS,
                                          GameId, P1, P1Name, P2, P2Name)} :
       /\ settings = st
       /\ game = created.doc
       /\ rng = created.rng
       /\ clock = 0
       /\ req = [game_id |-> None, uniqId |-> None]
       /\ resp = [kind |-> "none"]
       /\ writes = <<>>
       /\ sent = <<>>
       /\ settled = <<>>
       /\ calls = [c \in {1, 2} |-> Idle]
       /\ start = [game |-> created.doc, rng |-> created.rng]
       /\ gb = [board |-> Flip(created.doc.board), calls |-> 0]
       /\ ret = [op |-> "none"]
       /\ mm = NewManager
       /\ monotonic = 0
       /\ tasks = {}
       /\ inbox = {}
       /\ sessions = <<>>
       /\ cm = NewConnectionManager
       /\ ws = [w \in GameSockets |-> "NEW"]
       /\ fan = [f \in Fanouts |-> [phase |-> "idle"]]
       /\ handlers = [w \in Sockets |-> [phase |-> "new"]]

\* POST /game/move, served from start to end with no other call interleaved
MakeMove(request) ==
  \E out \in {ServiceMakeMove(FindById(game, request.game_id), rng, clock + 1,
                             settings.TURN_SECONDS, request)} :
  \E eff \in {StoreEffects(game, out)} :
     /\ game' = eff.game
     /\ rng' = out.rng
     /\ clock' = IF out.resolved THEN clock + 1 ELSE clock
     /\ req' = [game_id |-> request.game_id, uniqId |-> request.uniqId]
     /\ resp' = HttpResponse(out)
     /\ writes' = eff.writes
     /\ sent' = eff.sent \o RouteMessages(out)
     /\ settled' = settled \o eff.settled
     /\ UNCHANGED <<settings, handlers, calls, start, gb, ret>>
     /\ UNCHANGED <<mm, monotonic, tasks, inbox, sessions, cm, ws, fan>>

Next == \E request \in Requests : MakeMove(request)

Spec == Init /\ [][Next]_vars

\* a cell whose click resolves on internal board b: the first cell of the
\* first group find_matches reports
ResolvingCells(b) ==
  IF HasPossibleMoves(b) THEN {FindMatches(b)[1][1]} ELSE {}

\* the active player submits a click that resolves
KeepPlaying ==
  /\ game.status = IN_PROGRESS
  /\ \E c \in ResolvingCells(Flip(game.board)) :
       MakeMove([game_id |-> game.id, uniqId |-> game.current_player_id,
                 x |-> c[1], y |-> c[2]])

\* calls that are rejected: by the player who is not active, by a stranger,
\* for an unknown game, outside the grid
OtherCalls ==
  \E request \in Requests :
    /\ request.uniqId # game.current_player_id \/ ~InBounds(<<request.x, request.y>>)
    /\ MakeMove(request)

NextPlay == KeepPlaying \/ OtherCalls

\* a game in which the active player keeps submitting resolving clicks
\* weak fairness of KeepPlaying, WF_vars(KeepPlaying), with ENABLED written
\* out: a resolving click exists exactly while the game is in progress and
\* its board has a group, and the call always changes the state
FairPlay ==
  \/ []<>(~(game.status = IN_PROGRESS /\ ResolvingCells(Flip(game.board)) # {}))
  \/ []<><<KeepPlaying>>_vars

SpecPlay == Init /\ [][NextPlay]_vars /\ FairPlay

----------------------------------------------------------------------------
(* Two overlapping calls of POST /game/move.  The handler runs on one      *)
(* event loop: a call is interrupted only at an await.  make_move awaits   *)
(* find_by_id, then computes without awaiting (checks, explosion, gravity, *)
(* refill), then awaits its writes.  Begin is the first part, Commit the   *)
(* writes; each of the two calls is made once, on the session as created.  *)

\* make_move from the read of the session to the computed result; a
\* rejected call ends here with its HTTP error
Begin(c, request) ==
  /\ calls[c].phase = "idle"
  /\ \E out \in {ServiceMakeMove(FindById(game, request.game_id), rng, clock + 1,
                                 settings.TURN_SECONDS, request)} :
       /\ rng' = out.rng
       /\ clock' = IF out.resolved THEN clock + 1 ELSE clock
       /\ calls' = [calls EXCEPT ![c] =
                      IF out.error = ""
                      THEN [phase |-> "computed", request |-> request, out |-> out]
                      ELSE [phase |-> "done", request |-> request,
                            resp |-> HttpResponse(out)]]
  /\ UNCHANGED <<game, settings, handlers, req, resp, writes, sent, settled, start, gb, ret>>
  /\ UNCHANGED <<mm, monotonic, tasks, inbox, sessions, cm, ws, fan>>

\* make_move from its first write to the response of the route
Commit(c) ==
  /\ calls[c].phase = "computed"
  /\ \E eff \in {StoreEffects(game, calls[c].out)} :
       /\ game' = eff.game
       /\ writes' = eff.writes
       /\ sent' = eff.sent \o RouteMessages(calls[c].out)
       /\ settled' = settled \o eff.settled
  /\ calls' = [calls EXCEPT ![c] = [phase |-> "done", request |-> calls[c].request,
                                    resp |-> HttpResponse(calls[c].out)]]
  /\ UNCHANGED <<rng, clock, settings, handlers, req, resp, start, gb, ret>>
  /\ UNCHANGED <<mm, monotonic, tasks, inbox, sessions, cm, ws, fan>>

NextRace ==
  \/ \E c \in DOMAIN calls, request \in Requests : Begin(c, request)
  \/ \E c \in DOMAIN calls : Commit(c)

SpecRace == Init /\ [][NextRace]_vars

\* the last turn of the game: a resolution by player 2 now ends round 5
LastTurn(g) ==
  /\ g.status = IN_PROGRESS
  /\ g.round = RoundLimit
  /\ g.current_player_id = g.player2_id
  /\ g.player2_moves_left = 1

\* a call served alone, while no overlapping call is under way
Play(request) ==
  /\ \A c \in DOMAIN calls : calls[c].phase = "idle"
  /\ MakeMove(request)

\* an overlapping call of player 2 that arrives in the last turn, or after
\* it once the other call is under way
BeginLate(c, request) ==
  /\ request.uniqId = P2
  /\ \/ LastTurn(game)
     \/ game.status = FINISHED /\ \E d \in DOMAIN calls : calls[d].phase # "idle"
  /\ Begin(c, request)

\* a game played call after call, with two overlapping calls at its end
NextFinal ==
  \/ \E request \in Requests : Play(request)
  \/ \E c \in DOMAIN calls, request \in Requests : BeginLate(c, request)
  \/ \E c \in DOMAIN calls : Commit(c)

\* the default settings and the session created from position 2 of the
\* first tape, whose game the clicks of the model play to its end
InitFinal ==
  /\ Init
  /\ settings = Settings(None)
  /\ start.rng = CreateGameSession([tape |-> 1, pos |-> 2], 0, TurnSeconds, GameId,
                                   P1, P1Name, P2, P2Name).rng

SpecFinal == InitFinal /\ [][NextFinal]_vars

\* the session, generator and clock st after a call that computed out
Served(st, out) ==
  [game |-> StoreEffects(st.game, out).game, rng |-> out.rng,
   clock |-> IF out.resolved THEN st.clock + 1 ELSE st.clock]

\* one whole call served alone on st = [game, rng, clock]
Serve(st, request) ==
  Served(st, ServiceMakeMove(FindById(st.game, request.game_id), st.rng, st.clock + 1,
                             settings.TURN_SECONDS, request))

\* the stored session after request a, then request b, served one after the
\* other on the session as created
SerialGame(a, b) ==
  Serve(Serve([game |-> start.game, rng |-> start.rng, clock |-> 0], a), b).game

----------------------------------------------------------------------------
(* A GameBoard object under direct calls of its methods, in any order: the *)
(* object make_move builds from the stored board (GameBoard(internal_board)*)
(* of the session as created), then explode_blocks, apply_gravity,         *)
(* fill_empty_spaces and regenerate_board.                                 *)

\* direct calls made on one object
MaxBoardCalls == 5

\* position lists passed to explode_blocks: the row of three of the
\* scenario, two separate cells of one column with a top-row cell, and a
\* whole column
ExplodeShapes ==
  { << <<2, 2>>, <<3, 2>>, <<4, 2>> >>,
    << <<3, 1>>, <<3, 4>>, <<0, 7>> >>,
    << <<6, 0>>, <<6, 1>>, <<6, 2>>, <<6, 3>>, <<6, 4>>, <<6, 5>>, <<6, 6>>, <<6, 7>> >> }

\* regenerate_board from every state of the generator, tabulated once
Generation ==
  Strict([tp \in 1 .. Len(Tapes) |->
            Strict([pos \in 0 .. (Len(Tapes[tp]) - 1) |->
                      RegenerateBoard([tape |-> tp, pos |-> pos])])])

\* game_board.explode_blocks(positions)
BoardExplode(positions) ==
  /\ gb.calls < MaxBoardCalls
  /\ gb' = [board |-> ExplodeBlocks(gb.board, positions), calls |-> gb.calls + 1]
  /\ ret' = [op |-> "explode_blocks", args |-> positions, value |-> None]
  /\ UNCHANGED <<game, rng, clock, settings, handlers, req, resp, writes, sent, settled, calls, start>>
  /\ UNCHANGED <<mm, monotonic, tasks, inbox, sessions, cm, ws, fan>>

\* game_board.apply_gravity()
BoardGravity ==
  /\ gb.calls < MaxBoardCalls
  /\ \E out \in {ApplyGravity(gb.board)} :
       /\ gb' = [board |-> out.board, calls |-> gb.calls + 1]
       /\ ret' = [op |-> "apply_gravity", args |-> <<>>, value |-> out.moves]
  /\ UNCHANGED <<game, rng, clock, settings, handlers, req, resp, writes, sent, settled, calls, start>>
  /\ UNCHANGED <<mm, monotonic, tasks, inbox, sessions, cm, ws, fan>>

\* game_board.fill_empty_spaces()
BoardFill ==
  /\ gb.calls < MaxBoardCalls
  /\ \E out \in {FillEmptySpaces(gb.board, rng)} :
       /\ gb' = [board |-> out.board, calls |-> gb.calls + 1]
       /\ rng' = out.rng
       /\ ret' = [op |-> "fill_empty_spaces", args |-> <<>>, value |-> out.new_blocks]
  /\ UNCHANGED <<game, clock, settings, handlers, req, resp, writes, sent, settled, calls, start>>
  /\ UNCHANGED <<mm, monotonic, tasks, inbox, sessions, cm, ws, fan>>

\* game_board.regenerate_board(); forced records which of the two ends of
\* _generate_board_with_moves was reached
BoardRegenerate ==
  /\ gb.calls < MaxBoardCalls
  /\ \E out \in {Generation[rng.tape][rng.pos]} :
       /\ gb' = [board |-> out.board, calls |-> gb.calls + 1]
       /\ rng' = out.rng
       /\ ret' = [op |-> "regenerate_board", args |-> <<>>, value |-> None,
                  forced |-> out.forced]
  /\ UNCHANGED <<game, clock, settings, handlers, req, resp, writes, sent, settled, calls, start>>
  /\ UNCHANGED <<mm, monotonic, tasks, inbox, sessions, cm, ws, fan>>

\* game_board.find_matches(): the object is left as it is
BoardFindMatches ==
  /\ gb.calls < MaxBoardCalls
  /\ ret' = [op |-> "find_matches", args |-> <<>>, value |-> FindMatches(gb.board)]
  /\ UNCHANGED <<game, rng, clock, settings, handlers, req, resp, writes, sent, settled, calls, gb, start>>
  /\ UNCHANGED <<mm, monotonic, tasks, inbox, sessions, cm, ws, fan>>

NextBoard ==
  \/ \E positions \in ExplodeShapes : BoardExplode(positions)
  \/ BoardGravity
  \/ BoardFill
  \/ BoardRegenerate
  \/ BoardFindMatches

SpecBoard == Init /\ [][NextBoard]_vars

----------------------------------------------------------------------------
(* The functions that read no state, called on every input of a bounded    *)
(* set: get_neighbors, _calculate_score and the score make_move awards.    *)

\* the largest number of exploded cells passed to the scoring functions
MaxBlocks == 12

\* game_board.get_neighbors(x, y)
CallGetNeighbors(x, y) ==
  /\ ret' = [op |-> "get_neighbors", args |-> <<x, y>>, value |-> GetNeighbors(x, y)]
  /\ UNCHANGED <<game, rng, clock, settings, handlers, req, resp, writes, sent, settled, calls, start, gb>>
  /\ UNCHANGED <<mm, monotonic, tasks, inbox, sessions, cm, ws, fan>>

\* self._calculate_score(blocks_count)
CallCalculateScore(blocks_count) ==
  /\ ret' = [op |-> "_calculate_score", args |-> <<blocks_count>>,
             value |-> CalculateScore(blocks_count)]
  /\ UNCHANGED <<game, rng, clock, settings, handlers, req, resp, writes, sent, settled, calls, start, gb>>
  /\ UNCHANGED <<mm, monotonic, tasks, inbox, sessions, cm, ws, fan>>

\* make_move, "Calculate score - special handling for bombs": the score
\* gained by the active player for n cells exploded from a cell of clicked_color
CallScoreGained(clicked_color, n) ==
  /\ ret' = [op |-> "score_gained", args |-> <<clicked_color, n>>,
             value |-> Account(game, game.current_player_id, clicked_color, n,
                               0).total_score_gained]
  /\ UNCHANGED <<game, rng, clock, settings, handlers, req, resp, writes, sent, settled, calls, start, gb>>
  /\ UNCHANGED <<mm, monotonic, tasks, inbox, sessions, cm, ws, fan>>

NextPure ==
  \/ \E x \in Xs, y \in Ys : CallGetNeighbors(x, y)
  \/ \E n \in 0 .. MaxBlocks : CallCalculateScore(n)
  \/ \E c \in Range(BlockColor), n \in 3 .. MaxBlocks : CallScoreGained(c, n)

SpecPure == Init /\ [][NextPure]_vars

----------------------------------------------------------------------------
(* MatchmakingManager.  Every method body runs inside "async with          *)
(* self._lock", try_match with its await of create_game_session included,  *)
(* so each call is one step; the _notify_match coroutines try_match hands  *)
(* to the event loop run later, between other calls.  What a call returns  *)
(* or raises is the value and raised fields of its operator.               *)

\* _queue_entry_ttl_seconds
QueueEntryTtl == 300

\* seconds that pass between two readings of the monotonic clock
TickSeconds == 200

\* how often the monotonic clock advances
MaxTicks == 2

\* sessions the games collection takes from the matchmaking service
MaxSessions == 1

\* the id the repository gives the n-th created session
ObjectId(n) == << "s1", "s2", "s3", "s4" >>[n]

\* register_connection
RegisterConnection(m, uniq_id, websocket) ==
  [m EXCEPT !.connections[uniq_id] = websocket]

\* faulty variant: the connection is popped, the queue is left as it is
UnregisterConnectionOnly(m, uniq_id) ==
  [m EXCEPT !.connections[uniq_id] = None]

\* faulty variant: every connection and the whole queue are dropped
UnregisterEveryone(m, uniq_id) ==
  [queue |-> <<>>, connections |-> [u \in DOMAIN m.connections |-> None]]

\* unregister_connection
UnregisterConnection(m, uniq_id) ==
  [queue |-> Pick(m.queue, {i \in 1 .. Len(m.queue) : m.queue[i][1] # uniq_id}),
   connections |-> [m.connections EXCEPT ![uniq_id] = None]]

\* "for u, _, __ in self._queue" inside any(...): the entries at which the
\* scan ends, by a failing unpack of an entry that is not a triple or by
\* u == uniq_id
ScanStops(queue, uniq_id) ==
  {i \in 1 .. Len(queue) : Len(queue[i]) # 3 \/ queue[i][1] = uniq_id}

\* faulty variant: the entry is appended without looking for the player
JoinQueueUnchecked(m, uniq_id, name, now) ==
  [mm |-> [m EXCEPT !.queue = Append(m.queue, <<uniq_id, name, now>>)], raised |-> FALSE]

\* join_queue; raised: the call ended with ValueError
JoinQueue(m, uniq_id, name, now) ==
  IF ScanStops(m.queue, uniq_id) = {}
  THEN [mm |-> [m EXCEPT !.queue = Append(m.queue, <<uniq_id, name, now>>)], raised |-> FALSE]
  ELSE [mm |-> m, raised |-> Len(m.queue[Ascending(ScanStops(m.queue, uniq_id))[1]]) # 3]

\* faulty variant: only the entries without a socket are dropped
FreshIgnoringTtl(m, now) ==
  {i \in 1 .. Len(m.queue) : m.connections[m.queue[i][1]] # None}

\* the entries _prune_queue_locked keeps
Fresh(m, now) ==
  {i \in 1 .. Len(m.queue) :
     /\ m.connections[m.queue[i][1]] # None
     /\ ~(now - m.queue[i][3] > QueueEntryTtl)}

\* _prune_queue_locked; its "for uniq_id, name, joined_at in self._queue"
\* raises ValueError, before self._queue is assigned, at an entry that is
\* not a triple
PruneQueueLocked(m, now) ==
  IF \E i \in 1 .. Len(m.queue) : Len(m.queue[i]) # 3
  THEN [mm |-> m, raised |-> TRUE]
  ELSE [mm |-> [m EXCEPT !.queue = Pick(m.queue, Fresh(m, now))], raised |-> FALSE]

\* try_match, the two loops: the index pairs i < j whose players both have
\* a connection
LivePairs(m) ==
  {p \in (1 .. Len(m.queue)) \X (1 .. Len(m.queue)) :
     /\ p[1] < p[2]
     /\ m.connections[m.queue[p[1]][1]] # None
     /\ m.connections[m.queue[p[2]][1]] # None}

\* the first of them in the order the loops visit them
FirstPair(pairs) ==
  CHOOSE p \in pairs : \A q \in pairs : p[1] < q[1] \/ (p[1] = q[1] /\ p[2] <= q[2])

\* faulty variant: both coroutines are created with your_turn=True
NotifyTasksBothFirst(game_session_id, p1_id, p1_name, p2_id, p2_name) ==
  {[kind |-> "notify", game_session_id |-> game_session_id, uniq_id |-> p1_id,
    opponent_name |-> p2_name, your_turn |-> TRUE],
   [kind |-> "notify", game_session_id |-> game_session_id, uniq_id |-> p2_id,
    opponent_name |-> p1_name, your_turn |-> TRUE]}

\* try_match: the two asyncio.create_task(self._notify_match(...))
NotifyTasks(game_session_id, p1_id, p1_name, p2_id, p2_name) ==
  {[kind |-> "notify", game_session_id |-> game_session_id, uniq_id |-> p1_id,
    opponent_name |-> p2_name, your_turn |-> TRUE],
   [kind |-> "notify", game_session_id |-> game_session_id, uniq_id |-> p2_id,
    opponent_name |-> p1_name, your_turn |-> FALSE]}

\* faulty variant: a failed creation puts nobody back
RequeueNobody(queue, p1, p2) == queue

\* try_match, "except Exception": the two players appended as pairs
Requeue(queue, p1, p2) == queue \o << <<p1[1], p1[2]>>, <<p2[1], p2[2]>> >>

\* try_match: "self._queue.pop(j); self._queue.pop(i)"
Popped(m, i, j) == [m EXCEPT !.queue = Pick(m.queue, (1 .. Len(m.queue)) \ {i, j})]

\* try_match from its await of create_game_session on, with entries p1 and
\* p2 popped: the session is generated (gen) and stored, or, when the store
\* raises, both players are put back; value <<>> stands for a returned None
Created(m, p1, p2, storage_ok, gen, deadline, id) ==
  IF storage_ok
  THEN [mm |-> m, raised |-> FALSE, rng |-> gen.rng,
        value |-> <<id, p1[1], p2[1]>>,
        created |-> << NewSession(gen, deadline, id, p1[1], p1[2], p2[1], p2[2]).doc >>,
        notify |-> NotifyTasks(id, p1[1], p1[2], p2[1], p2[2])]
  ELSE [mm |-> [m EXCEPT !.queue = Requeue(m.queue, p1, p2)],
        raised |-> FALSE, rng |-> gen.rng, value |-> <<>>, created |-> <<>>,
        notify |-> {}]

\* try_match once entries i and j are chosen
Matched(m, i, j, storage_ok, gen, deadline, id) ==
  Created(Popped(m, i, j), m.queue[i], m.queue[j], storage_ok, gen, deadline, id)

\* try_match after the pruning
Pairing(pruned, storage_ok, r, deadline, id) ==
  IF pruned.raised \/ Len(pruned.mm.queue) < 2 \/ LivePairs(pruned.mm) = {}
  THEN [mm |-> pruned.mm, raised |-> pruned.raised, rng |-> r, value |-> <<>>,
        created |-> <<>>, notify |-> {}]
  ELSE Matched(pruned.mm, FirstPair(LivePairs(pruned.mm))[1],
               FirstPair(LivePairs(pruned.mm))[2], storage_ok,
               Generation[r.tape][r.pos], deadline, id)

\* try_match
TryMatch(m, now, storage_ok, r, deadline, id) ==
  Pairing(PruneQueueLocked(m, now), storage_ok, r, deadline, id)

\* _notify_match: the message
MatchFound(task) ==
  [type |-> "match_found", game_session_id |-> task.game_session_id,
   opponent_name |-> task.opponent_name, your_turn |-> task.your_turn]

\* await matchmaking_manager.register_connection(uniq_id, websocket)
Register(uniq_id, websocket) ==
  /\ mm' = RegisterConnection(mm, uniq_id, websocket)
  /\ UNCHANGED <<game, rng, clock, settings, handlers, req, resp, writes, sent, settled, calls, start, gb, cm, ws, fan>>
  /\ UNCHANGED <<ret, monotonic, tasks, inbox, sessions>>

\* await matchmaking_manager.unregister_connection(uniq_id)
Unregister(uniq_id) ==
  /\ mm' = UnregisterConnection(mm, uniq_id)
  /\ UNCHANGED <<game, rng, clock, settings, handlers, req, resp, writes, sent, settled, calls, start, gb, cm, ws, fan>>
  /\ UNCHANGED <<ret, monotonic, tasks, inbox, sessions>>

\* await matchmaking_manager.join_queue(uniq_id, name)
Join(uniq_id) ==
  /\ mm' = JoinQueue(mm, uniq_id, NameOf(uniq_id), monotonic).mm
  /\ UNCHANGED <<game, rng, clock, settings, handlers, req, resp, writes, sent, settled, calls, start, gb, cm, ws, fan>>
  /\ UNCHANGED <<ret, monotonic, tasks, inbox, sessions>>

\* await matchmaking_manager.try_match(); storage_ok: create_game_session
\* returns the stored session, otherwise it raises
Match(storage_ok) ==
  /\ storage_ok => Len(sessions) < MaxSessions
  /\ \E out \in {TryMatch(mm, monotonic, storage_ok, rng,
                          clock + settings.TURN_SECONDS, ObjectId(Len(sessions) + 1))} :
       /\ mm' = out.mm
       /\ sessions' = sessions \o out.created
       /\ tasks' = tasks \cup out.notify
       /\ rng' = out.rng
  /\ UNCHANGED <<game, clock, settings, handlers, req, resp, writes, sent, settled, calls, start, gb, cm, ws, fan>>
  /\ UNCHANGED <<ret, monotonic, inbox>>

\* _notify_match of a created task: the socket read from _connections and
\* the send_json on it, which delivers the message or raises
NotifyMatch(task, delivered) ==
  /\ task \in tasks
  /\ task.kind = "notify"
  /\ mm.connections[task.uniq_id] = None => delivered
  /\ tasks' = IF mm.connections[task.uniq_id] # None /\ ~delivered
              THEN (tasks \ {task}) \cup {[task EXCEPT !.kind = "unregister"]}
              ELSE tasks \ {task}
  /\ inbox' = IF mm.connections[task.uniq_id] # None /\ delivered
              THEN inbox \cup {[websocket |-> mm.connections[task.uniq_id],
                                uniq_id |-> task.uniq_id, message |-> MatchFound(task)]}
              ELSE inbox
  /\ UNCHANGED <<game, rng, clock, settings, handlers, req, resp, writes, sent, settled, calls, start, gb, cm, ws, fan>>
  /\ UNCHANGED <<ret, mm, monotonic, sessions>>

\* _notify_match, "except Exception": await self.unregister_connection(uniq_id)
NotifyFailed(task) ==
  /\ task \in tasks
  /\ task.kind = "unregister"
  /\ mm' = UnregisterConnection(mm, task.uniq_id)
  /\ tasks' = tasks \ {task}
  /\ UNCHANGED <<game, rng, clock, settings, handlers, req, resp, writes, sent, settled, calls, start, gb, cm, ws, fan>>
  /\ UNCHANGED <<ret, monotonic, inbox, sessions>>

\* time passes
Tick ==
  /\ monotonic < MaxTicks * TickSeconds
  /\ monotonic' = monotonic + TickSeconds
  /\ UNCHANGED <<game, rng, clock, settings, handlers, req, resp, writes, sent, settled, calls, start, gb, cm, ws, fan>>
  /\ UNCHANGED <<ret, mm, tasks, inbox, sessions>>

\* the service as started, with the default settings and the generator of
\* the first tape as seed 0 leaves it
InitMatch ==
  /\ Init
  /\ settings = Settings(None)
  /\ rng = CreateGameSession([tape |-> 1, pos |-> 0], 0, TurnSeconds,
                             GameId, P1, P1Name, P2, P2Name).rng

\* The queue over time: every player connects with one socket, joins,
\* disconnects; pairing attempts find the store available or not; the
\* created coroutines are left waiting.
NextMatch ==
  \/ \E uniq_id \in Regulars : Register(uniq_id, "ws1")
  \/ \E uniq_id \in Regulars : Unregister(uniq_id)
  \/ \E uniq_id \in Regulars : Join(uniq_id)
  \/ \E storage_ok \in BOOLEAN : Match(storage_ok)
  \/ Tick

SpecMatch == InitMatch /\ [][NextMatch]_vars

\* A queue building up over time with the store available: four players
\* join, before or after they connect, and stay until they are paired or
\* pruned.
NextQueue ==
  \/ \E uniq_id \in Players : Register(uniq_id, "ws1")
  \/ \E uniq_id \in Players : Join(uniq_id)
  \/ Match(TRUE)
  \/ Tick

SpecQueue == InitMatch /\ [][NextQueue]_vars

\* Pairing and notification within the TTL with the store available: a
\* player may connect with either socket, and the _notify_match coroutines
\* run between the other calls.
NextNotify ==
  \/ \E uniq_id \in Regulars, websocket \in Sockets : Register(uniq_id, websocket)
  \/ \E uniq_id \in Regulars : Unregister(uniq_id)
  \/ \E uniq_id \in Regulars : Join(uniq_id)
  \/ Match(TRUE)
  \/ \E task \in tasks, delivered \in BOOLEAN : NotifyMatch(task, delivered)
  \/ \E task \in tasks : NotifyFailed(task)

SpecNotify == InitMatch /\ [][NextNotify]_vars

\* sessions created while calls wait for the lock
MaxPairings == 2

\* faulty variant: the methods do not take the lock
LockIgnored == TRUE

\* self._lock is free: no try_match is inside "async with self._lock"
\* awaiting create_game_session
LockFree == \A t \in tasks : t.kind # "try_match"

\* try_match up to its await: the lock taken, the pruning, the pair popped;
\* without a pair the call returns and releases the lock at once
TryMatchEnter ==
  /\ LockFree
  /\ \E pruned \in {PruneQueueLocked(mm, monotonic)} :
       IF pruned.raised \/ Len(pruned.mm.queue) < 2 \/ LivePairs(pruned.mm) = {}
       THEN /\ mm' = pruned.mm
            /\ tasks' = tasks
       ELSE \E p \in {FirstPair(LivePairs(pruned.mm))} :
              /\ mm' = Popped(pruned.mm, p[1], p[2])
              /\ tasks' = tasks \cup {[kind |-> "try_match", p1 |-> pruned.mm.queue[p[1]],
                                        p2 |-> pruned.mm.queue[p[2]]]}
  /\ UNCHANGED <<game, rng, clock, settings, handlers, req, resp, writes, sent, settled, calls, start, gb, cm, ws, fan>>
  /\ UNCHANGED <<ret, monotonic, inbox, sessions>>

\* try_match from the end of its await to the release of the lock
TryMatchLeave(storage_ok) ==
  /\ storage_ok => Len(sessions) < MaxPairings
  /\ \E t \in {u \in tasks : u.kind = "try_match"} :
     \E out \in {Created(mm, t.p1, t.p2, storage_ok, Generation[rng.tape][rng.pos],
                         clock + settings.TURN_SECONDS, ObjectId(Len(sessions) + 1))} :
       /\ mm' = out.mm
       /\ sessions' = sessions \o out.created
       /\ tasks' = (tasks \ {t}) \cup out.notify
       /\ rng' = out.rng
  /\ UNCHANGED <<game, clock, settings, handlers, req, resp, writes, sent, settled, calls, start, gb, cm, ws, fan>>
  /\ UNCHANGED <<ret, monotonic, inbox>>

\* Calls that overlap a try_match: join_queue, unregister_connection,
\* register_connection and other try_match calls arrive while one awaits
\* create_game_session, and go on when they get the lock.
NextLock ==
  \/ \E uniq_id \in Regulars : LockFree /\ Register(uniq_id, "ws1")
  \/ \E uniq_id \in Regulars : LockFree /\ Unregister(uniq_id)
  \/ \E uniq_id \in Regulars : LockFree /\ Join(uniq_id)
  \/ TryMatchEnter
  \/ \E storage_ok \in BOOLEAN : TryMatchLeave(storage_ok)

SpecLock == InitMatch /\ [][NextLock]_vars

\* matchmaking_ws up to register_connection: the socket accepted, the init
\* message with uniqId and name received, the connection registered
WsRegister(websocket, uniq_id) ==
  /\ handlers[websocket].phase = "new"
  /\ mm' = RegisterConnection(mm, uniq_id, websocket)
  /\ handlers' = [handlers EXCEPT ![websocket] = [phase |-> "registered", uniq_id |-> uniq_id]]
  /\ UNCHANGED <<game, rng, clock, settings, req, resp, writes, sent, settled, calls, start, gb, cm, ws, fan>>
  /\ UNCHANGED <<ret, monotonic, tasks, inbox, sessions>>

\* matchmaking_ws: "await matchmaking_manager.join_queue(uniq_id, name)"; a
\* ValueError leaves the try block for the finally
WsJoin(websocket) ==
  /\ handlers[websocket].phase = "registered"
  /\ \E out \in {JoinQueue(mm, handlers[websocket].uniq_id,
                           NameOf(handlers[websocket].uniq_id), monotonic)} :
       /\ mm' = out.mm
       /\ handlers' = [handlers EXCEPT ![websocket].phase =
                         IF out.raised THEN "finally" ELSE "joined"]
  /\ UNCHANGED <<game, rng, clock, settings, req, resp, writes, sent, settled, calls, start, gb, cm, ws, fan>>
  /\ UNCHANGED <<ret, monotonic, tasks, inbox, sessions>>

\* matchmaking_ws: "await matchmaking_manager.try_match()", then the
\* receive loop
WsTryMatch(websocket, storage_ok) ==
  /\ handlers[websocket].phase = "joined"
  /\ storage_ok => Len(sessions) < MaxSessions
  /\ \E out \in {TryMatch(mm, monotonic, storage_ok, rng,
                          clock + settings.TURN_SECONDS, ObjectId(Len(sessions) + 1))} :
       /\ mm' = out.mm
       /\ sessions' = sessions \o out.created
       /\ tasks' = tasks \cup out.notify
       /\ rng' = out.rng
       /\ handlers' = [handlers EXCEPT ![websocket].phase =
                         IF out.raised THEN "finally" ELSE "open"]
  /\ UNCHANGED <<game, clock, settings, req, resp, writes, sent, settled, calls, start, gb, cm, ws, fan>>
  /\ UNCHANGED <<ret, monotonic, inbox>>

\* matchmaking_ws: receive_text raises WebSocketDisconnect
WsClosed(websocket) ==
  /\ handlers[websocket].phase = "open"
  /\ handlers' = [handlers EXCEPT ![websocket].phase = "finally"]
  /\ UNCHANGED <<game, rng, clock, settings, req, resp, writes, sent, settled, calls, start, gb, cm, ws, fan>>
  /\ UNCHANGED <<ret, mm, monotonic, tasks, inbox, sessions>>

\* matchmaking_ws, finally: unregister_connection(uniq_id)
WsFinally(websocket) ==
  /\ handlers[websocket].phase = "finally"
  /\ mm' = UnregisterConnection(mm, handlers[websocket].uniq_id)
  /\ handlers' = [handlers EXCEPT ![websocket].phase = "done"]
  /\ UNCHANGED <<game, rng, clock, settings, req, resp, writes, sent, settled, calls, start, gb, cm, ws, fan>>
  /\ UNCHANGED <<ret, monotonic, tasks, inbox, sessions>>

\* Two WebSockets of /matchmaking/ws, each opened by either of two players,
\* their handlers running between each other's awaits.
NextHandlers ==
  \/ \E websocket \in Sockets, uniq_id \in {P1, P2} : WsRegister(websocket, uniq_id)
  \/ \E websocket \in Sockets : WsJoin(websocket)
  \/ \E websocket \in Sockets, storage_ok \in BOOLEAN : WsTryMatch(websocket, storage_ok)
  \/ \E websocket \in Sockets : WsClosed(websocket)
  \/ \E websocket \in Sockets : WsFinally(websocket)
  \/ Tick

SpecHandlers == InitMatch /\ [][NextHandlers]_vars

----------------------------------------------------------------------------
(* ConnectionManager of routes/game.py (core/websocket.py holds the same   *)
(* code).  connect and disconnect run without awaiting once the socket is  *)
(* accepted; send_personal_message awaits each send_text, so other         *)
(* handlers run between its sends; its cleanup follows the last send       *)
(* without an await.                                                       *)

\* connect: active_connections.setdefault(game_id, []).append(websocket)
Connect(c, websocket) == [present |-> TRUE, list |-> Append(c.list, websocket)]

\* the sockets of the list whose client_state is not DISCONNECTED
StillOpen(c, states) ==
  Pick(c.list, {i \in 1 .. Len(c.list) : states[c.list[i]] # "DISCONNECTED"})

\* disconnect
Disconnect(c, states) ==
  IF ~c.present THEN c
  ELSE IF StillOpen(c, states) # <<>> THEN [present |-> TRUE, list |-> StillOpen(c, states)]
  ELSE [present |-> FALSE, list |-> <<>>]

\* the list without the dead sockets
Alive(c, dead) == Pick(c.list, {i \in 1 .. Len(c.list) : c.list[i] \notin Range(dead)})

\* faulty variant: the key is deleted whenever a send failed
CleanupDeletesKey(c, dead) ==
  IF dead = <<>> THEN [cm |-> c, raised |-> FALSE]
  ELSE [cm |-> [present |-> FALSE, list |-> <<>>], raised |-> FALSE]

\* send_personal_message, "# Cleanup"; raised: active_connections[game_id]
\* raised KeyError because the key was deleted during the sends
Cleanup(c, dead) ==
  IF dead = <<>> THEN [cm |-> c, raised |-> FALSE]
  ELSE IF ~c.present THEN [cm |-> c, raised |-> TRUE]
  ELSE IF Alive(c, dead) # <<>>
       THEN [cm |-> [present |-> TRUE, list |-> Alive(c, dead)], raised |-> FALSE]
       ELSE [cm |-> [present |-> FALSE, list |-> <<>>], raised |-> FALSE]

\* websocket_endpoint: manager.connect(websocket, game_id) for a new client
WsConnect(websocket) ==
  /\ ws[websocket] = "NEW"
  /\ ws' = [ws EXCEPT ![websocket] = "CONNECTED"]
  /\ cm' = Connect(cm, websocket)
  /\ UNCHANGED <<game, rng, clock, settings, handlers, req, resp, writes, sent, settled, calls, start, gb>>
  /\ UNCHANGED <<ret, mm, monotonic, tasks, inbox, sessions, fan>>

\* the client of a connected socket goes away: from now on a send on the
\* socket raises, and its handler has yet to see the disconnect
PeerLeaves(websocket) ==
  /\ ws[websocket] = "CONNECTED"
  /\ ws' = [ws EXCEPT ![websocket] = "GONE"]
  /\ UNCHANGED <<game, rng, clock, settings, handlers, req, resp, writes, sent, settled, calls, start, gb>>
  /\ UNCHANGED <<ret, mm, monotonic, tasks, inbox, sessions, cm, fan>>

\* websocket_endpoint: receive_text raises WebSocketDisconnect, which sets
\* client_state to DISCONNECTED, and the handler calls manager.disconnect
WsDisconnect(websocket) ==
  /\ ws[websocket] = "GONE"
  /\ ws' = [ws EXCEPT ![websocket] = "DISCONNECTED"]
  /\ cm' = Disconnect(cm, ws')
  /\ UNCHANGED <<game, rng, clock, settings, handlers, req, resp, writes, sent, settled, calls, start, gb>>
  /\ UNCHANGED <<ret, mm, monotonic, tasks, inbox, sessions, fan>>

\* send_personal_message of call f up to its first await: nothing to do
\* without the key, otherwise the copy of the list it will go through
FanoutBegin(f) ==
  /\ fan[f].phase = "idle"
  /\ fan' = [fan EXCEPT ![f] =
               IF cm.present
               THEN [phase |-> "sending", targets |-> cm.list, next |-> 1,
                     received |-> {}, dead |-> <<>>, raised |-> FALSE]
               ELSE [phase |-> "done", targets |-> <<>>, next |-> 1,
                     received |-> {}, dead |-> <<>>, raised |-> FALSE]]
  /\ UNCHANGED <<game, rng, clock, settings, handlers, req, resp, writes, sent, settled, calls, start, gb>>
  /\ UNCHANGED <<ret, mm, monotonic, tasks, inbox, sessions, cm, ws>>

\* call f after the send on socket number next of its copy: the list of
\* received or dead sockets
Sent(p, states) ==
  IF states[p.targets[p.next]] = "CONNECTED"
  THEN [p EXCEPT !.received = @ \cup {p.targets[p.next]}, !.next = @ + 1]
  ELSE [p EXCEPT !.dead = Append(@, p.targets[p.next]), !.next = @ + 1]

\* the end of one await ws.send_text of call f: the text is delivered or
\* the send raises; after the last socket the cleanup follows at once
FanoutSend(f) ==
  /\ fan[f].phase = "sending"
  /\ \E p \in {Sent(fan[f], ws)} :
       IF p.next <= Len(p.targets)
       THEN /\ fan' = [fan EXCEPT ![f] = p]
            /\ cm' = cm
       ELSE \E out \in {Cleanup(cm, p.dead)} :
              /\ fan' = [fan EXCEPT ![f] = [p EXCEPT !.phase = "done",
                                                     !.raised = out.raised]]
              /\ cm' = out.cm
  /\ UNCHANGED <<game, rng, clock, settings, handlers, req, resp, writes, sent, settled, calls, start, gb>>
  /\ UNCHANGED <<ret, mm, monotonic, tasks, inbox, sessions, ws>>

NextFanout ==
  \/ \E websocket \in GameSockets : WsConnect(websocket)
  \/ \E websocket \in GameSockets : PeerLeaves(websocket)
  \/ \E websocket \in GameSockets : WsDisconnect(websocket)
  \/ \E f \in Fanouts : FanoutBegin(f)
  \/ \E f \in Fanouts : FanoutSend(f)

SpecFanout == InitMatch /\ [][NextFanout]_vars

----------------------------------------------------------------------------
(* Properties                                                              *)

\* moves-left of player u in session g
MovesLeft(g, u) == IF g.player1_id = u THEN g.player1_moves_left ELSE g.player2_moves_left

\* the other participant
Opponent(g, u) == IF g.player1_id = u THEN g.player2_id ELSE g.player1_id

\* a MoveResponse of the branch that exploded 3 or more cells
IsResolution(r) == r.kind = "ok" /\ Len(r.exploded) >= 3

\* the board that the delta of response r (exploded, then gravity, then the
\* new blocks) makes of internal board b
SettledBoard(b, r) ==
  LET new == {r.new_blocks[i].pos : i \in 1 .. Len(r.new_blocks)}
      value(p) == (CHOOSE i \in 1 .. Len(r.new_blocks) : r.new_blocks[i].pos = p)
      Place(fallen) ==
        Rows([y \in Ys |-> [x \in Xs |->
               IF <<x, y>> \in new THEN r.new_blocks[value(<<x, y>>)].value
                                   ELSE fallen[y][x]]])
  IN CHOOSE s \in {Place(f) : f \in {ApplyGravity(ExplodeBlocks(b, r.exploded)).board}} : TRUE

\* two sessions equal in everything but the turn deadline
SameSession(g, h) ==
  [g EXCEPT !.current_turn_deadline = 0] = [h EXCEPT !.current_turn_deadline = 0]

\* the cells of the grid
Grid == {<<x, y>> : x \in Xs, y \in Ys}

\* the hex neighbour rule: q is above, below, right or left of p, or on the
\* row above or below it, one column to the left when p's row is even and
\* one column to the right when it is odd
Touches(p, q) ==
  \/ q[1] = p[1] /\ (q[2] = p[2] + 1 \/ q[2] = p[2] - 1)
  \/ q[2] = p[2] /\ (q[1] = p[1] + 1 \/ q[1] = p[1] - 1)
  \/ /\ q[2] = p[2] + 1 \/ q[2] = p[2] - 1
     /\ q[1] = (IF p[2] % 2 = 0 THEN p[1] - 1 ELSE p[1] + 1)

\* the cells of the colour that touch a cell of the set
Widen(b, color, cells) ==
  cells \cup {q \in Grid : b[q[2]][q[1]] = color /\ \E p \in cells : Touches(p, q)}

\* the connected same-colour component of a set of cells: the set closed
\* under Widen
RECURSIVE Closure(_, _, _)
Closed(b, color, cells, wider) ==
  IF wider = cells THEN cells ELSE Closure(b, color, wider)

Closure(b, color, cells) == Closed(b, color, cells, Widen(b, color, cells))

\* the connected same-colour component of cell p on board b
Component(b, p) == Closure(b, b[p[2]][p[1]], {p})

\* score(n) as tabulated: 30, 60, 100, then 20 per cell from 6 cells on
ScoreTable(n) ==
  IF n = 3 THEN 30 ELSE IF n = 4 THEN 60 ELSE IF n = 5 THEN 100 ELSE 20 * n

\* the stored score of player u in session g
ScoreOf(g, u) == IF g.player1_id = u THEN g.player1_score ELSE g.player2_score

\* the stored bomb count of player u in session g
BombsOf(g, u) == IF g.player1_id = u THEN g.player1_bombs ELSE g.player2_bombs

\* the colour of the internal board of session g at the cell response r
\* says was clicked
ClickedColor(g, r) == Flip(g.board)[r.clicked_y][r.clicked_x]

\* C1: a successful resolution leaves the acting player's stored moves-left
\* at its value before the action minus 1; the other player's moves-left is
\* untouched unless that player becomes active, and is then reset to 2.
C1_ActingPlayerLosesOneMove ==
  [][IsResolution(resp') =>
       LET actor == req'.uniqId
           other == Opponent(game, actor)
       IN /\ MovesLeft(game', actor) = MovesLeft(game, actor) - 1
          /\ MovesLeft(game', other) =
               IF game'.current_player_id = other /\ game.current_player_id = actor
               THEN MovesPerTurn ELSE MovesLeft(game, other)]_vars

\* player 2 has resolved its first move while player 1 waits with 0 moves left
C1_Witness ==
  /\ IsResolution(resp)
  /\ req.uniqId = game.player2_id
  /\ game.player2_moves_left = 1
  /\ game.player1_moves_left = 0

\* C2: after a successful resolution the active player has changed if and
\* only if the acting player's moves-left reached 0; the new active player
\* is the opponent and holds the allowance of 2.
C2_TurnSwitchesAtZero ==
  [][IsResolution(resp') =>
       LET actor == req'.uniqId
           switched == game'.current_player_id # game.current_player_id
       IN /\ switched <=> (MovesLeft(game', actor) = 0)
          /\ switched => /\ game.current_player_id = actor
                         /\ game'.current_player_id = Opponent(game, actor)
                         /\ MovesLeft(game', game'.current_player_id) = MovesPerTurn]_vars

\* the resolution that used up player 1's allowance has passed the turn
C2_Witness ==
  /\ IsResolution(resp)
  /\ req.uniqId = game.player1_id
  /\ game.player1_moves_left = 0
  /\ game.current_player_id = game.player2_id
  /\ game.player2_moves_left = MovesPerTurn

\* C3: the round grows by exactly 1 exactly when the turn passes from
\* player 2 back to player 1, which happens on the resolution that uses up
\* player 2's allowance after player 1 used up its own; no other call
\* (any rejected call, no-op or other resolution) changes the round.
C3_RoundPerCycle ==
  [][LET back == /\ game.current_player_id = game.player2_id
                 /\ game'.current_player_id = game.player1_id
     IN /\ game'.round = IF back THEN game.round + 1 ELSE game.round
        /\ back => /\ IsResolution(resp')
                   /\ req'.uniqId = game.player2_id
                   /\ game.player1_moves_left = 0
                   /\ game'.player2_moves_left = 0]_vars

\* player 2's last move of round 2 has opened round 3
C3_Witness ==
  /\ IsResolution(resp)
  /\ req.uniqId = game.player2_id
  /\ game.current_player_id = game.player1_id
  /\ game.round = 3
  /\ resp.round = 3

\* C4: the session is finished exactly when its round exceeds the configured
\* settings.TOTAL_ROUNDS, and never while the round is at most that limit.
C4_FinishedIffRoundExceedsSetting ==
  (game.status = FINISHED) <=> (game.round > settings.TOTAL_ROUNDS)

\* C5: a call rejected with an error writes nothing: the stored session is
\* the same before and after, and update_game was not called.
C5_RejectedWritesNothing ==
  [][resp'.kind = "error" => game' = game /\ writes' = <<>>]_vars

\* an out-of-grid click by the active player, rejected in the middle of a game
C5_Witness ==
  /\ resp.kind = "error"
  /\ resp.detail = "Invalid position"
  /\ req.uniqId = game.current_player_id
  /\ game.round >= 2
  /\ game.player1_score > 0

\* C6 (as amended): a participant whose stored moves-left is 0 is not the
\* active player, so the move is rejected by the turn check ("Not your
\* turn"), or by the status check once the game is finished; never with
\* "No moves left".  The stored session is unchanged.
C6_ZeroMovesRejectedByTurnCheck ==
  [][(/\ req'.game_id = GameId
      /\ req'.uniqId \in {game.player1_id, game.player2_id}
      /\ MovesLeft(game, req'.uniqId) = 0)
       => /\ resp'.kind = "error"
          /\ resp'.detail = IF game.status = FINISHED THEN "Game is finished"
                                                      ELSE "Not your turn"
          /\ game' = game /\ writes' = <<>>]_vars

\* player 1, out of moves while player 2 plays, has tried to move
C6_Witness ==
  /\ resp.kind = "error"
  /\ resp.detail = "Not your turn"
  /\ req.uniqId = game.player1_id
  /\ game.player1_moves_left = 0
  /\ game.current_player_id = game.player2_id
  /\ game.status = IN_PROGRESS

\* C6 as stated: a participant whose stored moves-left is 0 is rejected
\* with "No moves left", the stored session unchanged.
C6_ZeroMovesRejectedAsNoMovesLeft ==
  [][(/\ req'.game_id = GameId
      /\ req'.uniqId \in {game.player1_id, game.player2_id}
      /\ MovesLeft(game, req'.uniqId) = 0)
       => /\ resp'.kind = "error"
          /\ resp'.detail = "No moves left"
          /\ game' = game]_vars

\* C7: when two overlapping calls have both returned, the stored session is
\* the one that serving them one after the other, in one of the two orders,
\* produces, and every score a response reported is in the stored scores.
C7_Serializable ==
  (calls[1].phase = "done" /\ calls[2].phase = "done") =>
    LET a == calls[1].request
        b == calls[2].request
        gained(c) == IF calls[c].resp.kind = "ok" THEN calls[c].resp.score_gained ELSE 0
    IN /\ \/ SameSession(game, SerialGame(a, b))
          \/ SameSession(game, SerialGame(b, a))
       /\ game.player1_score + game.player2_score =
            start.game.player1_score + start.game.player2_score + gained(1) + gained(2)

\* C8: once the session is finished, the settlement has run and the scores
\* it was computed from are the final stored scores.
C8_SettlementUsesFinalScores ==
  game.status = FINISHED =>
    /\ Len(settled) >= 1
    /\ \A i \in 1 .. Len(settled) :
         /\ settled[i].player1_score = game.player1_score
         /\ settled[i].player2_score = game.player2_score
         /\ settled[i].rewarded

\* C9: the call that finishes the session broadcasts game_over exactly once,
\* and a call that does not finish it broadcasts none.
C9_GameOverBroadcastOnce ==
  [][Cardinality({i \in 1 .. Len(sent') : sent'[i] = "game_over"}) =
       IF game.status # FINISHED /\ game'.status = FINISHED THEN 1 ELSE 0]_vars

\* C10: after every call that returned a MoveResponse the stored board has a
\* connected same-colour group of 3 or more, and board_regenerated is true
\* exactly when the stored board is not the one the response's delta gives,
\* i.e. when it was replaced.
C10_BoardAlwaysPlayable ==
  [][resp'.kind = "ok" =>
       \A before \in {Flip(game.board)}, after \in {Flip(game'.board)} :
         /\ resp'.board_regenerated <=> (after # SettledBoard(before, resp'))
         /\ HasPossibleMoves(after)]_vars

\* a resolution whose refill left no group of 3, answered with a new board
C10_Witness ==
  /\ IsResolution(resp)
  /\ resp.board_regenerated
  /\ resp.board = game.board

\* C11: a resolution from a click on a non-bomb cell explodes exactly the
\* connected same-colour component of the clicked cell (of size n >= 3),
\* gains score(n), which is added to the actor's stored score, and leaves
\* no empty cell in any column of the stored board.
C11_ClickExplodesComponent ==
  [][(IsResolution(resp') /\ ClickedColor(game, resp') # "Bomb") =>
       \A comp \in {Component(Flip(game.board), <<resp'.clicked_x, resp'.clicked_y>>)} :
         /\ Range(resp'.exploded) = comp
         /\ Len(resp'.exploded) = Cardinality(comp)
         /\ resp'.score_gained = ScoreTable(Cardinality(comp))
         /\ ScoreOf(game', req'.uniqId) = ScoreOf(game, req'.uniqId) + ScoreTable(Cardinality(comp))
         /\ \A x \in Xs : Cardinality({y \in Ys : game'.board[y][x] # Empty}) = 8]_vars

\* the click on (3,2) that exploded exactly (3,2), (4,2), (3,3) for 30 points
C11_Witness ==
  /\ IsResolution(resp)
  /\ resp.clicked_x = 3 /\ resp.clicked_y = 2
  /\ Range(resp.exploded) = {<<3, 2>>, <<4, 2>>, <<3, 3>>}
  /\ resp.score_gained = 30

\* C12: a resolution from a click on a bomb cell explodes exactly the
\* clicked cell and its non-empty hex neighbours inside the grid (7 cells
\* for the clicks of the model, which have all 6 neighbours), gains
\* 2 * score(n) for the n cells exploded, and grants no bomb charge.
C12_BombExplodesNeighbourhood ==
  [][(IsResolution(resp') /\ ClickedColor(game, resp') = "Bomb") =>
       \A b \in {Flip(game.board)}, c \in {<<resp'.clicked_x, resp'.clicked_y>>} :
         /\ Range(resp'.exploded) =
              {c} \cup {q \in Grid : Touches(c, q) /\ b[q[2]][q[1]] # Empty}
         /\ Len(resp'.exploded) = Cardinality(Range(resp'.exploded))
         /\ Cardinality({q \in Grid : Touches(c, q)}) = 6 => Len(resp'.exploded) = 7
         /\ resp'.score_gained = 2 * ScoreTable(Len(resp'.exploded))
         /\ BombsOf(game', game.player1_id) <= BombsOf(game, game.player1_id)
         /\ BombsOf(game', game.player2_id) <= BombsOf(game, game.player2_id)]_vars

\* a bomb triggered at (3,5) has exploded 7 cells for 280 points
C12_Witness ==
  /\ IsResolution(resp)
  /\ resp.clicked_x = 3 /\ resp.clicked_y = 5
  /\ Len(resp.exploded) = 7
  /\ <<3, 5>> \in Range(resp.exploded)
  /\ resp.score_gained = 280

\* C13: a resolution that detonates a bomb consumes exactly one bomb charge
\* of the acting player: the actor's stored bomb count is the count before
\* minus 1 and the opponent's is unchanged.
C13_BombActionConsumesCharge ==
  [][(IsResolution(resp') /\ ClickedColor(game, resp') = "Bomb") =>
       /\ BombsOf(game', req'.uniqId) = BombsOf(game, req'.uniqId) - 1
       /\ BombsOf(game', Opponent(game, req'.uniqId)) =
            BombsOf(game, Opponent(game, req'.uniqId))]_vars

\* the affected set of a click on cell c of internal board b: the bomb's
\* neighbourhood, or the connected same-colour component
Affected(b, c) ==
  IF b[c[2]][c[1]] = "Bomb"
  THEN {c} \cup {q \in Grid : Touches(c, q) /\ b[q[2]][q[1]] # Empty}
  ELSE Component(b, c)

\* C14: a click of the active player whose affected set has fewer than 3
\* cells is answered with score_gained 0 and empty exploded, fallen and
\* new_blocks lists, and leaves the stored scores, moves-left, bomb counts,
\* active player, round and status as they were; the stored board is the
\* same unless it had no possible move, and then it was regenerated.
C14_NoMatchChangesNothing ==
  [][(/\ resp'.kind = "ok"
      /\ Cardinality(Affected(Flip(game.board), <<resp'.clicked_x, resp'.clicked_y>>)) < 3)
       => /\ resp'.score_gained = 0
          /\ resp'.exploded = <<>> /\ resp'.fallen = <<>> /\ resp'.new_blocks = <<>>
          /\ resp'.moves_left = MovesLeft(game, req'.uniqId)
          /\ resp'.total_score = ScoreOf(game, req'.uniqId)
          /\ [game' EXCEPT !.board = game.board] = game
          /\ IF HasPossibleMoves(Flip(game.board))
             THEN game'.board = game.board /\ ~resp'.board_regenerated
             ELSE resp'.board_regenerated /\ HasPossibleMoves(Flip(game'.board))]_vars

\* player 2, with points on both sides and one move used, has clicked a
\* cell that belongs to no group of 3
C14_Witness ==
  /\ resp.kind = "ok"
  /\ resp.score_gained = 0
  /\ resp.exploded = <<>>
  /\ req.uniqId = game.player2_id
  /\ game.current_player_id = game.player2_id
  /\ game.player2_moves_left = 1
  /\ game.player1_score > 0 /\ game.player2_score > 0

\* C15: _calculate_score(n) is 30 for n = 3, 60 for n = 4, 100 for n = 5
\* and 20 * n for every n >= 6 (120 for 6, 140 for 7); the score make_move
\* awards for n cells is that value for an ordinary match and exactly twice
\* it for a bomb.
C15_ScoreTable ==
  /\ ret.op = "_calculate_score" /\ ret.args[1] >= 3 =>
       /\ ret.value = ScoreTable(ret.args[1])
       /\ ret.args[1] = 6 => ret.value = 120
       /\ ret.args[1] = 7 => ret.value = 140
  /\ ret.op = "score_gained" =>
       ret.value = IF ret.args[1] = "Bomb" THEN 2 * ScoreTable(ret.args[2])
                                           ELSE ScoreTable(ret.args[2])

\* the score of a bomb on 7 cells has been computed: 280
C15_Witness ==
  /\ ret.op = "score_gained"
  /\ ret.args = <<"Bomb", 7>>
  /\ ret.value = 280

\* C16: get_neighbors(x, y) returns only positions inside the 7x8 grid, and
\* the relation is symmetric: a cell b is in get_neighbors(a) if and only
\* if a is in get_neighbors(b).
C16_NeighborsSymmetric ==
  ret.op = "get_neighbors" =>
    /\ \A i \in 1 .. Len(ret.value) :
         /\ 0 <= ret.value[i][1] /\ ret.value[i][1] <= 6
         /\ 0 <= ret.value[i][2] /\ ret.value[i][2] <= 7
    /\ \A b \in Grid :
         (b \in Range(ret.value)) <=> (ret.args \in Range(GetNeighbors(b[1], b[2])))

\* the neighbours of the corner (0,0) have been listed: two cells
C16_Witness ==
  /\ ret.op = "get_neighbors"
  /\ ret.args = <<0, 0>>
  /\ Range(ret.value) = {<<0, 1>>, <<1, 0>>}

\* C17: get_neighbors(x, y) returns exactly the in-grid members of (x,y+1),
\* (x,y-1), (x+1,y), (x-1,y) and, for even y, (x-1,y+1), (x-1,y-1), for odd
\* y, (x+1,y+1), (x+1,y-1); at most 6 positions, none twice, never (x,y).
C17_NeighborsExact ==
  ret.op = "get_neighbors" =>
    \A x \in {ret.args[1]}, y \in {ret.args[2]} :
      /\ Range(ret.value) =
           ({<<x, y + 1>>, <<x, y - 1>>, <<x + 1, y>>, <<x - 1, y>>} \cup
            (IF y % 2 = 0 THEN {<<x - 1, y + 1>>, <<x - 1, y - 1>>}
                          ELSE {<<x + 1, y + 1>>, <<x + 1, y - 1>>})) \cap Grid
      /\ Len(ret.value) <= 6
      /\ Len(ret.value) = Cardinality(Range(ret.value))
      /\ <<x, y>> \notin Range(ret.value)

\* the neighbours of the interior cell (3,3) of an odd row have been listed:
\* six cells, with the diagonals to the right
C17_Witness ==
  /\ ret.op = "get_neighbors"
  /\ ret.args = <<3, 3>>
  /\ Len(ret.value) = 6
  /\ <<4, 4>> \in Range(ret.value) /\ <<4, 2>> \in Range(ret.value)

\* the non-empty values of column x of board b from row y upward
RECURSIVE ValuesFrom(_, _, _)
ValuesFrom(b, x, y) ==
  IF y >= H THEN <<>>
  ELSE (IF b[y][x] = Empty THEN <<>> ELSE << b[y][x] >>) \o ValuesFrom(b, x, y + 1)

\* the non-empty values of column x, bottom to top
ColumnValues(b, x) == ValuesFrom(b, x, 0)

\* C18: apply_gravity leaves in every column the same bottom-to-top
\* sequence of non-empty values, in rows 0..k-1 with every cell above
\* empty; so the count of non-empty cells is kept, no empty cell lies below
\* a non-empty one, and no value changes column.
C18_GravityCompactsColumns ==
  [][ret'.op = "apply_gravity" /\ gb'.calls = gb.calls + 1 =>
       \A x \in Xs :
         /\ ColumnValues(gb'.board, x) = ColumnValues(gb.board, x)
         /\ \A y \in Ys :
              gb'.board[y][x] # Empty <=> y < Len(ColumnValues(gb.board, x))
         /\ \A y \in Ys :
              y < Len(ColumnValues(gb.board, x)) =>
                gb'.board[y][x] = ColumnValues(gb.board, x)[y + 1]]_vars

\* gravity has closed two separate holes of column 3: the top block fell by
\* two rows, rows 6 and 7 are empty, and column 6, exploded whole, is empty
C18_Witness ==
  /\ ret.op = "apply_gravity"
  /\ \E i \in 1 .. Len(ret.value) : ret.value[i] = [from |-> <<3, 7>>, to |-> <<3, 5>>]
  /\ gb.board[6][3] = Empty /\ gb.board[7][3] = Empty /\ gb.board[5][3] # Empty
  /\ \A y \in Ys : gb.board[y][6] = Empty

\* cell (x, y) of board b is in the unbroken run of empty cells at the top
\* of its column
InTopRun(b, x, y) == \A above \in Ys : above >= y => b[above][x] = Empty

\* C19: fill_empty_spaces changes only cells of the empty run at the top of
\* a column, never a non-empty cell; it returns one (position, value) entry
\* for each cell it filled, with the value placed there; and when the call
\* before it was apply_gravity, no cell is empty afterwards.
C19_FillOnlyTopRuns ==
  [][ret'.op = "fill_empty_spaces" /\ gb'.calls = gb.calls + 1 =>
       /\ \A p \in Grid :
            /\ gb'.board[p[2]][p[1]] # gb.board[p[2]][p[1]] => InTopRun(gb.board, p[1], p[2])
            /\ gb.board[p[2]][p[1]] # Empty => gb'.board[p[2]][p[1]] = gb.board[p[2]][p[1]]
       /\ {ret'.value[i].pos : i \in 1 .. Len(ret'.value)} =
            {p \in Grid : gb.board[p[2]][p[1]] = Empty /\ gb'.board[p[2]][p[1]] # Empty}
       /\ Len(ret'.value) = Cardinality({ret'.value[i].pos : i \in 1 .. Len(ret'.value)})
       /\ \A i \in 1 .. Len(ret'.value) :
            gb'.board[ret'.value[i].pos[2]][ret'.value[i].pos[1]] = ret'.value[i].value
       /\ ret.op = "apply_gravity" => \A p \in Grid : gb'.board[p[2]][p[1]] # Empty]_vars

\* a refill after gravity: cell (3,6), emptied only by the fall of column 3,
\* has a new block and the grid is full again
C19_Witness ==
  /\ ret.op = "fill_empty_spaces"
  /\ \E i \in 1 .. Len(ret.value) : ret.value[i].pos = <<3, 6>>
  /\ \A p \in Grid : gb.board[p[2]][p[1]] # Empty

\* board b holds a connected same-colour group of 3 or more cells
Playable(b) ==
  \E p \in Grid : b[p[2]][p[1]] # Empty /\ Cardinality(Component(b, p)) >= 3

\* C20: the board of a fresh GameBoard and the board after every
\* regenerate_board hold a group of 3 or more, so has_possible_moves is
\* true; also when all 100 random boards had none and the row of three was
\* forced.
C20_GeneratedBoardPlayable ==
  (gb.calls = 0 \/ ret.op = "regenerate_board") =>
    Playable(gb.board) /\ HasPossibleMoves(gb.board)

\* a regeneration in which none of the 100 boards had a group: the board
\* carries the forced row (2,2), (3,2), (4,2)
C20_Witness ==
  /\ ret.op = "regenerate_board"
  /\ ret.forced
  /\ gb.board[2][2] = gb.board[2][3] /\ gb.board[2][3] = gb.board[2][4]
  /\ {<<2, 2>>, <<3, 2>>, <<4, 2>>} \subseteq Component(gb.board, <<3, 2>>)

\* the player ids of the queue entries, in queue order
QueuedIds(queue) == [i \in 1 .. Len(queue) |-> queue[i][1]] \o <<>>

\* C21: whatever calls of register_connection, join_queue,
\* unregister_connection and try_match were made, try_match calls whose
\* session creation failed included, no two entries of the wait queue have
\* the same player id.
C21_OneEntryPerPlayer ==
  \A i, j \in 1 .. Len(mm.queue) : i # j => mm.queue[i][1] # mm.queue[j][1]

\* a failed creation has put two players back behind a third who waits
C21_Witness ==
  /\ Len(mm.queue) = 3
  /\ Len(mm.queue[1]) = 3 /\ Len(mm.queue[2]) = 2 /\ Len(mm.queue[3]) = 2

\* entry k of queue m.queue belongs to a player with a connection
Live(m, k) == m.connections[m.queue[k][1]] # None

\* entry k has a connection and has waited no longer than the TTL at now
Waiting(m, k, now) == Live(m, k) /\ now - m.queue[k][3] <= QueueEntryTtl

\* C22 as stated: a successful try_match pairs the two earliest entries
\* whose players have a connection, the earlier as player 1, and leaves
\* every other entry in the queue, in order.
C22_PairsEarliestLive ==
  [][sessions' # sessions =>
       \E i, j \in 1 .. Len(mm.queue) :
          /\ i < j /\ Live(mm, i) /\ Live(mm, j)
          /\ \A k \in 1 .. (j - 1) : Live(mm, k) => k = i
          /\ sessions'[Len(sessions')].player1_id = mm.queue[i][1]
          /\ sessions'[Len(sessions')].player2_id = mm.queue[j][1]
          /\ mm'.queue = Pick(mm.queue, (1 .. Len(mm.queue)) \ {i, j})]_vars

\* C22: a successful try_match pairs the two earliest entries that have a
\* connection and have waited no longer than the TTL, the earlier of them
\* as player 1 of the new session; afterwards the queue holds, in their
\* previous order, exactly the other entries that have a connection and
\* are within the TTL (the stale ones are pruned).
C22_PairsEarliestFresh ==
  [][sessions' # sessions =>
       \E i, j \in 1 .. Len(mm.queue) :
          /\ i < j /\ Waiting(mm, i, monotonic) /\ Waiting(mm, j, monotonic)
          /\ \A k \in 1 .. (j - 1) : Waiting(mm, k, monotonic) => k = i
          /\ sessions'[Len(sessions')].player1_id = mm.queue[i][1]
          /\ sessions'[Len(sessions')].player2_id = mm.queue[j][1]
          /\ TryMatch(mm, monotonic, TRUE, rng, clock + settings.TURN_SECONDS,
                      ObjectId(Len(sessions'))).value
               = <<sessions'[Len(sessions')].id, mm.queue[i][1], mm.queue[j][1]>>
          /\ mm'.queue = Pick(mm.queue, {k \in 1 .. Len(mm.queue) :
                                          Waiting(mm, k, monotonic)} \ {i, j})]_vars

\* a pairing of the first two of four waiting players: the other two are
\* still queued, in their order
C22_Witness ==
  /\ Len(sessions) = 1
  /\ sessions[1].player1_id = P1 /\ sessions[1].player2_id = P2
  /\ QueuedIds(mm.queue) = <<Stranger, Fourth>>
  /\ monotonic = 0

\* C23: every match_found that was sent names a created session of which
\* the receiver is a participant, says your_turn true to that session's
\* player 1 and false to its player 2 (so both messages of a pairing carry
\* the one session id), and every session is created with player 1 as the
\* active player, round 1 and 2 moves for each player.
C23_FirstMoverFlags ==
  /\ \A i \in 1 .. Len(sessions) :
       /\ sessions[i].id = ObjectId(i)
       /\ sessions[i].player1_id # sessions[i].player2_id
       /\ sessions[i].current_player_id = sessions[i].player1_id
       /\ sessions[i].round = 1
       /\ sessions[i].player1_moves_left = 2 /\ sessions[i].player2_moves_left = 2
       /\ sessions[i].status = IN_PROGRESS
  /\ \A e \in inbox : \E i \in 1 .. Len(sessions) :
       /\ e.message.type = "match_found"
       /\ e.message.game_session_id = sessions[i].id
       /\ e.uniq_id \in {sessions[i].player1_id, sessions[i].player2_id}
       /\ e.message.your_turn = (e.uniq_id = sessions[i].player1_id)
       /\ e.message.opponent_name =
            IF e.uniq_id = sessions[i].player1_id THEN sessions[i].player2_name
            ELSE sessions[i].player1_name

\* both players of the first session have been sent their match_found
C23_Witness ==
  /\ Len(sessions) = 1
  /\ \E a, b \in inbox :
       /\ a.uniq_id = sessions[1].player1_id /\ a.message.your_turn
       /\ b.uniq_id = sessions[1].player2_id /\ ~b.message.your_turn
       /\ a.message.game_session_id = b.message.game_session_id

\* C24: a try_match whose create_game_session raised (the generator was
\* used, no session was stored) returns None, creates no _notify_match
\* coroutine, and leaves the two players it had chosen, the first two
\* entries with a connection and within the TTL, in the queue with their
\* names.
C24_FailedCreationRequeues ==
  [][(rng' # rng /\ sessions' = sessions) =>
       /\ TryMatch(mm, monotonic, FALSE, rng, clock + settings.TURN_SECONDS,
                   ObjectId(Len(sessions) + 1)).value = <<>>
       /\ tasks' = tasks /\ inbox' = inbox
       /\ \E i, j \in 1 .. Len(mm.queue) :
            /\ i < j /\ Waiting(mm, i, monotonic) /\ Waiting(mm, j, monotonic)
            /\ \A k \in 1 .. (j - 1) : Waiting(mm, k, monotonic) => k = i
            /\ \E a, b \in 1 .. Len(mm'.queue) :
                 /\ a # b
                 /\ mm'.queue[a][1] = mm.queue[i][1] /\ mm'.queue[a][2] = mm.queue[i][2]
                 /\ mm'.queue[b][1] = mm.queue[j][1] /\ mm'.queue[b][2] = mm.queue[j][2]]_vars

\* after a failed creation: nobody was paired, no coroutine waits, and the
\* two players are queued behind the third
C24_Witness ==
  /\ sessions = <<>> /\ tasks = {}
  /\ rng # start.rng
  /\ Len(mm.queue) = 3
  /\ QueuedIds(mm.queue) = <<Stranger, P1, P2>>
  /\ Len(mm.queue[2]) = 2 /\ Len(mm.queue[3]) = 2

\* player u has an entry in queue
Queued(queue, u) == \E k \in 1 .. Len(queue) : queue[k][1] = u

\* C25: the call that takes a player's connection out of the registry
\* takes the player's queue entry out in the same step, so no other call
\* finds the entry without the connection because of it; a session is
\* created only with players who have a connection and a queue entry when
\* try_match runs; and a player without an entry gets one only by
\* join_queue: after a disconnect a player is paired only after
\* registering and joining again.
C25_DisconnectRemovesBoth ==
  [][\A u \in Players :
       /\ (mm.connections[u] # None /\ mm'.connections[u] = None) =>
            ~Queued(mm'.queue, u)
       /\ (sessions' # sessions /\ u \in {sessions'[Len(sessions')].player1_id,
                                          sessions'[Len(sessions')].player2_id}) =>
            mm.connections[u] # None /\ Queued(mm.queue, u)
       /\ (~Queued(mm.queue, u) /\ Queued(mm'.queue, u)) =>
            /\ mm'.queue = Append(mm.queue, <<u, NameOf(u), monotonic>>)
            /\ mm'.connections = mm.connections
       /\ (mm.connections[u] = None /\ mm'.connections[u] # None) =>
            mm'.queue = mm.queue]_vars

\* two players wait with their connections; the third has neither
\* connection nor entry
C25_Witness ==
  /\ mm.connections[Stranger] = None /\ ~Queued(mm.queue, Stranger)
  /\ QueuedIds(mm.queue) = <<P1, P2>>
  /\ mm.connections[P1] # None /\ mm.connections[P2] # None
  /\ Len(mm.queue[1]) = 3 /\ Len(mm.queue[2]) = 3
  /\ mm.queue[1][3] = TickSeconds /\ monotonic = TickSeconds
  /\ sessions = <<>>

\* C26: when a send_personal_message call ends, every socket of the list
\* it went through has either received the text or failed, the failures
\* of some stopping no send to the others; the registry list is the list
\* of that moment without the failed sockets, in its order; and the key is
\* present afterwards exactly when that list is not empty.
C26_FanoutToleratesFailure ==
  [][\A f \in Fanouts :
       (fan[f].phase = "sending" /\ fan'[f].phase = "done") =>
         /\ fan'[f].received \cup Range(fan'[f].dead) = Range(fan'[f].targets)
         /\ fan'[f].received \cap Range(fan'[f].dead) = {}
         /\ cm'.list = Pick(cm.list, {i \in 1 .. Len(cm.list) :
                                        cm.list[i] \notin Range(fan'[f].dead)})
         /\ cm'.present = (cm'.list # <<>>)
         /\ cm.present = (cm.list # <<>>)]_vars

\* a call that went through three sockets has ended: the send failed on
\* the second, the first and the third received the text and are the
\* registry list
C26_Witness ==
  \E f \in Fanouts :
    /\ fan[f].phase = "done"
    /\ fan[f].targets = << "a", "b", "c" >>
    /\ fan[f].dead = << "b" >>
    /\ fan[f].received = {"a", "c"}
    /\ cm = [present |-> TRUE, list |-> << "a", "c" >>]

\* the cells a resolution filled with new blocks
NewCells(r) == {r.new_blocks[i].pos : i \in 1 .. Len(r.new_blocks)}

\* C27: a resolution explodes the clicked group or the bomb blast and
\* nothing else, scores those cells alone (twice their table value for a
\* bomb) for the actor, and stores the board of one explosion, one gravity
\* pass and one refill: when that board holds a group of 3 or more, formed
\* by fallen or new cells or not, it is stored as it is, with no further
\* explosion and no regeneration.
C27_SingleSettle ==
  [][IsResolution(resp') =>
       \A before \in {Flip(game.board)} :
       \A after \in {SettledBoard(before, resp')} :
         /\ Range(resp'.exploded) = Affected(before, <<resp'.clicked_x, resp'.clicked_y>>)
         /\ resp'.score_gained =
              ScoreTable(Len(resp'.exploded)) *
                (IF ClickedColor(game, resp') = "Bomb" THEN 2 ELSE 1)
         /\ ScoreOf(game', req'.uniqId) = ScoreOf(game, req'.uniqId) + resp'.score_gained
         /\ ScoreOf(game', Opponent(game, req'.uniqId)) =
              ScoreOf(game, Opponent(game, req'.uniqId))
         /\ Playable(after) =>
              /\ Flip(game'.board) = after
              /\ ~resp'.board_regenerated]_vars

\* a resolution after which a new block lies in a group of 3 or more of
\* the stored board
C27_Witness ==
  /\ IsResolution(resp)
  /\ ~resp.board_regenerated
  /\ \E p \in NewCells(resp) : Cardinality(Component(Flip(game.board), p)) >= 3

\* C28: the groups find_matches returns are exactly the connected
\* same-value components, under get_neighbors, of non-empty cells that have
\* 3 or more cells: each group lists the whole component of each of its
\* cells once, no cell is in two groups, and every cell of such a component
\* is in a group.  The components do not depend on the order of the scan.
C28_MatchesAreComponents ==
  ret.op = "find_matches" =>
    \A ms \in {ret.value} :
      /\ \A i \in 1 .. Len(ms) :
           /\ Len(ms[i]) >= 3
           /\ Len(ms[i]) = Cardinality(Range(ms[i]))
           /\ \A p \in Range(ms[i]) :
                gb.board[p[2]][p[1]] # Empty /\ Component(gb.board, p) = Range(ms[i])
      /\ \A i, j \in 1 .. Len(ms) : i # j => Range(ms[i]) \cap Range(ms[j]) = {}
      /\ \A p \in Grid :
           gb.board[p[2]][p[1]] # Empty /\ Cardinality(Component(gb.board, p)) >= 3 =>
             \E i \in 1 .. Len(ms) : p \in Range(ms[i])

\* find_matches on a board with holes: it returned two groups or more, one
\* of them not of the colour of the other's, and left out a pair of touching
\* cells of one colour
C28_Witness ==
  /\ ret.op = "find_matches"
  /\ \E p \in Grid : gb.board[p[2]][p[1]] = Empty
  /\ Len(ret.value) >= 2
  /\ \E i, j \in 1 .. Len(ret.value) :
       ColorAt(gb.board, ret.value[i][1]) # ColorAt(gb.board, ret.value[j][1])
  /\ \E p \in Grid : gb.board[p[2]][p[1]] # Empty /\ Cardinality(Component(gb.board, p)) = 2

\* C29: a resolution from a click on a cell that is not a bomb, with 5 or
\* more cells exploded, raises the stored bomb count of the player who moved
\* by exactly 1 and leaves the opponent's as it was; every other call
\* (a resolution of 3 or 4 cells, a bomb's blast, a click on fewer than 3
\* cells, a rejected request) leaves both stored bomb counts as they were.
C29_BombGrantedForFive ==
  [][IF /\ IsResolution(resp')
        /\ ClickedColor(game, resp') # "Bomb"
        /\ Len(resp'.exploded) >= 5
     THEN /\ BombsOf(game', req'.uniqId) = BombsOf(game, req'.uniqId) + 1
          /\ BombsOf(game', Opponent(game, req'.uniqId)) =
               BombsOf(game, Opponent(game, req'.uniqId))
     ELSE /\ game'.player1_bombs = game.player1_bombs
          /\ game'.player2_bombs = game.player2_bombs]_vars

\* a group of 5 or more was exploded at its single score and the player who
\* moved holds a charge while the opponent holds none
C29_Witness ==
  /\ IsResolution(resp)
  /\ Len(resp.exploded) >= 5
  /\ resp.score_gained = ScoreTable(Len(resp.exploded))
  /\ BombsOf(game, req.uniqId) = 1
  /\ BombsOf(game, Opponent(game, req.uniqId)) = 0

\* C30: once the stored status of the session is finished, every call of
\* make_move for it that follows, by either player, is rejected with
\* "Game is finished", the stored session never changes again, and so its
\* status never returns to in_progress.
C30_FinishedIsTerminal ==
  [][game.status = FINISHED =>
       /\ game' = game
       /\ (calls' = calls /\ req'.game_id = game.id) =>
            resp' = [kind |-> "error", status_code |-> 400, detail |-> "Game is finished"]
       /\ \A c \in DOMAIN calls :
            (calls[c].phase = "idle" /\ calls'[c].phase # "idle"
               /\ calls'[c].request.game_id = game.id) =>
              /\ calls'[c].phase = "done"
              /\ calls'[c].resp =
                   [kind |-> "error", status_code |-> 400, detail |-> "Game is finished"]]_vars

\* C30, the calls that follow: a call that reads the session after its
\* stored status is finished is rejected with "Game is finished", and the
\* stored status stays finished
C30_LaterCallsRejected ==
  [][game.status = FINISHED =>
       /\ game'.status = FINISHED
       /\ calls' = calls => game' = game
       /\ (calls' = calls /\ req'.game_id = game.id) =>
            resp' = [kind |-> "error", status_code |-> 400, detail |-> "Game is finished"]
       /\ \A c \in DOMAIN calls :
            (calls[c].phase = "idle" /\ calls'[c].phase # "idle"
               /\ calls'[c].request.game_id = game.id) =>
              /\ calls'[c].phase = "done"
              /\ calls'[c].resp =
                   [kind |-> "error", status_code |-> 400, detail |-> "Game is finished"]]_vars

\* entry e of the queue is stale at time now: its player has no connection,
\* or it carries an enqueue time more than the TTL back
Stale(m, e, now) ==
  \/ m.connections[e[1]] = None
  \/ Len(e) = 3 /\ now - e[3] > QueueEntryTtl

\* C31: a call of try_match, made in any state, creates a session only with
\* players who both have a connection when it is called, and leaves a queue
\* with no entry whose player has no connection or whose waiting time
\* exceeds the TTL.
C31_NoStalePairedOrLeft ==
  \A storage_ok \in BOOLEAN :
    \A out \in {TryMatch(mm, monotonic, storage_ok, rng, clock + settings.TURN_SECONDS,
                         ObjectId(Len(sessions) + 1))} :
      /\ \A k \in 1 .. Len(out.created) :
           /\ mm.connections[out.created[k].player1_id] # None
           /\ mm.connections[out.created[k].player2_id] # None
      /\ \A k \in 1 .. Len(out.mm.queue) : ~Stale(out.mm, out.mm.queue[k], monotonic)

\* the pairings player u is held by: entries of u in the queue, and
\* try_match calls that have popped u and await create_game_session
Held(u) ==
  Cardinality({i \in 1 .. Len(mm.queue) : mm.queue[i][1] = u})
    + Cardinality({t \in tasks : t.kind = "try_match" /\ u \in {t.p1[1], t.p2[1]}})

\* C32: with join_queue, unregister_connection and try_match calls
\* overlapping in any order, a player is held by one entry or one pairing
\* at most, and at most one pairing is under way; each step creates one
\* session at most, whose two players differ, were each held by the pairing
\* that created it and are held by nothing afterwards; so an enqueue puts a
\* player in one session at most.
C32_PairingsExclusive ==
  [][/\ \A u \in Players : Held(u) <= 1
     /\ Cardinality({t \in tasks : t.kind = "try_match"}) <= 1
     /\ Len(sessions') <= Len(sessions) + 1
     /\ Len(sessions') = Len(sessions) + 1 =>
          \A s \in {sessions'[Len(sessions')]} :
            /\ s.player1_id # s.player2_id
            /\ \E t \in tasks : t.kind = "try_match" /\ t.p1[1] = s.player1_id
                                  /\ t.p2[1] = s.player2_id /\ t \notin tasks'
            /\ \A u \in {s.player1_id, s.player2_id} :
                 Held(u) = 1 /\ Cardinality({i \in 1 .. Len(mm'.queue) : mm'.queue[i][1] = u}) = 0]_vars

\* two sessions exist, the second created for a player of the first who had
\* joined again
C32_Witness ==
  /\ Len(sessions) = 2
  /\ {sessions[1].player1_id, sessions[1].player2_id}
       \cap {sessions[2].player1_id, sessions[2].player2_id} # {}
  /\ sessions[1].id # sessions[2].id

\* C33: try_match returns the triple of the session it created before any
\* match_found is sent.  A send that raises changes nothing but the task
\* that made it, which goes on to unregister_connection; that call removes
\* the connection and the queue entries of the player of the failed send
\* and of nobody else.  Neither step touches the stored sessions, the
\* messages already delivered or the other player's coroutine.
C33_FailedNotifyRemovesOnePlayer ==
  [][/\ Len(sessions') > Len(sessions) =>
          \A s \in {sessions'[Len(sessions')]} :
            /\ TryMatch(mm, monotonic, TRUE, rng, clock + settings.TURN_SECONDS,
                        ObjectId(Len(sessions) + 1)).value
                 = <<s.id, s.player1_id, s.player2_id>>
            /\ \A u \in {s.player1_id, s.player2_id} :
                 \E t \in tasks' : t.kind = "notify" /\ t.uniq_id = u
                                     /\ t.game_session_id = s.id
     /\ \A t \in tasks :
          (t.kind = "notify" /\ t \notin tasks'
             /\ [t EXCEPT !.kind = "unregister"] \in tasks') =>
            /\ mm' = mm /\ sessions' = sessions /\ inbox' = inbox
            /\ tasks' \ {[t EXCEPT !.kind = "unregister"]} = tasks \ {t}
     /\ \A t \in tasks :
          (t.kind = "unregister" /\ t \notin tasks') =>
            /\ mm'.connections[t.uniq_id] = None
            /\ \A u \in Players \ {t.uniq_id} : mm'.connections[u] = mm.connections[u]
            /\ mm'.queue = Pick(mm.queue, {i \in 1 .. Len(mm.queue) : mm.queue[i][1] # t.uniq_id})
            /\ sessions' = sessions /\ inbox' = inbox
            /\ tasks' = tasks \ {t}]_vars

\* the send to one player of a created session has failed and that player's
\* unregister_connection is still to run, while the other player has
\* received match_found for the session
C33_Witness ==
  /\ Len(sessions) = 1
  /\ \E t \in tasks :
       /\ t.kind = "unregister"
       /\ mm.connections[t.uniq_id] # None
       /\ \E msg \in inbox :
            /\ msg.uniq_id # t.uniq_id
            /\ msg.message.game_session_id = t.game_session_id
            /\ msg.message.game_session_id = sessions[1].id

\* C34: in every state, after try_match calls whose session creation
\* failed included, every queue entry is a triple of player id, name and
\* enqueue time, and a join_queue or try_match call made now does not raise.
C34_QueueWellFormed ==
  /\ \A i \in 1 .. Len(mm.queue) : Len(mm.queue[i]) = 3
  /\ \A u \in Regulars : ~JoinQueue(mm, u, NameOf(u), monotonic).raised
  /\ \A storage_ok \in BOOLEAN :
       ~TryMatch(mm, monotonic, storage_ok, rng, clock + settings.TURN_SECONDS,
                 ObjectId(Len(sessions) + 1)).raised

\* C35: when the handler of a WebSocket unregisters its player while the
\* registry holds a newer WebSocket of the same player whose handler has
\* not ended, the newer connection stays in the registry and the player's
\* queue entry stays in the queue.
C35_OlderTeardownKeepsNewer ==
  [][\A old \in Sockets, new \in Sockets :
       (/\ handlers[old].phase = "finally" /\ handlers'[old].phase = "done"
        /\ new # old
        /\ handlers[new].phase \in {"registered", "joined", "open"}
        /\ handlers[new].uniq_id = handlers[old].uniq_id
        /\ mm.connections[handlers[old].uniq_id] = new) =>
         /\ mm'.connections[handlers[old].uniq_id] = new
         /\ Queued(mm.queue, handlers[old].uniq_id) => Queued(mm'.queue, handlers[old].uniq_id)]_vars

\* C36: while the stored session is in progress, after its creation and
\* after every call of make_move served alone, current_player_id is one of
\* the two players, the active player has 1 or 2 moves left, the other
\* player has 0 or 2, and round is 1 or more.
C36_InProgressShape ==
  game.status = IN_PROGRESS =>
    /\ game.current_player_id \in {game.player1_id, game.player2_id}
    /\ game.player1_id # game.player2_id
    /\ MovesLeft(game, game.current_player_id) \in {1, 2}
    /\ MovesLeft(game, Opponent(game, game.current_player_id)) \in {0, 2}
    /\ game.round >= 1

\* in a later round player 2 has resolved a first move: 1 move left for
\* player 2, none for player 1
C36_Witness ==
  /\ game.status = IN_PROGRESS
  /\ IsResolution(resp)
  /\ game.round >= 2
  /\ game.current_player_id = game.player2_id
  /\ game.player2_moves_left = 1
  /\ game.player1_moves_left = 0

\* C37: the stored board, at creation and after every make_move call, a
\* resolution, a click on fewer than 3 cells or a regeneration, has 8 rows
\* of 7 cells, none of them Empty, each one of the six colours or Bomb.
C37_StoredBoardFull ==
  /\ DOMAIN game.board = Ys
  /\ \A y \in DOMAIN game.board :
       /\ DOMAIN game.board[y] = Xs
       /\ \A x \in DOMAIN game.board[y] :
            game.board[y][x] # Empty /\ game.board[y][x] \in Range(BlockColor)

\* a resolution has exploded 5 cells or more, blocks have fallen and new
\* ones were drawn, a bomb among them; the stored board is full
C37_Witness ==
  /\ IsResolution(resp)
  /\ Len(resp.exploded) >= 5
  /\ Len(resp.fallen) > 0
  /\ \E k \in 1 .. Len(resp.new_blocks) : resp.new_blocks[k].value = "Bomb"
  /\ \A y \in Ys : \A x \in Xs : game.board[y][x] # Empty

\* board b has a click that resolves: a same-colour group of 3 or more, or
\* a Bomb cell whose blast, the cell and its non-empty neighbours, covers 3
\* cells or more
Resolvable(b) ==
  \E c \in Grid : b[c[2]][c[1]] # Empty /\ Cardinality(Affected(b, c)) >= 3

\* C38: when make_move regenerates the board, the board it judged, the
\* refilled board of a resolution or the stored board of a click on fewer
\* than 3 cells, has no click that resolves: no same-colour group of 3 or
\* more and no Bomb cell whose blast covers 3 cells or more.
C38_RegeneratesOnlyWhenStuck ==
  [][(resp'.kind = "ok" /\ resp'.board_regenerated) =>
       \A judged \in {IF IsResolution(resp') THEN SettledBoard(Flip(game.board), resp')
                                             ELSE Flip(game.board)} :
         ~Resolvable(judged)]_vars

\* C39: after every resolution the stored board differs from the board
\* stored before the call, whatever the refill drew.
C39_ResolutionChangesBoard ==
  [][IsResolution(resp') => game'.board # game.board]_vars

====
